---- MODULE Spec2Model ----
(***************************************************************************)
(* Scene/prefab scanner of rust-core (src/rust-core/src/scanner).          *)
(*                                                                         *)
(* A document is a sequence of blocks; a block is its header               *)
(* "--- !u!<cls> &<id>[ stripped]" and the lines of its body.  A line is   *)
(* kept as the key the scanner's regular expressions look for and the      *)
(* value they capture.  Names and patterns are sequences of characters so  *)
(* that lower-casing, containment and glob matching are computed.          *)
(***************************************************************************)
EXTENDS Integers, Sequences, FiniteSets, TLC

VARIABLES doc,                  \* content of the document file
          file_state,           \* "ok", "missing" or "unreadable"
          doc_root,             \* ancestor directory holding Assets: <<>> or <<root>>
          fs_meta,              \* root with an Assets directory -> its sidecar files,
                                \* in the order read_dir yields them
          guid_cache,           \* Scanner.guid_cache
          project_root,         \* Scanner.project_root: <<>> or <<root>>
          hierarchy_providers,  \* Scanner.config.hierarchy_providers
          script_containers,    \* Scanner.config.script_containers
          config_fields,        \* Scanner.config: container type and field names
          args,                 \* the arguments the caller passes
          call,                 \* the last call
          res,                  \* its return value
          extracted,            \* containers the call ran full component extraction for
          scanned               \* the roots scan_meta_files was run on, in order

fsVars == <<doc, file_state, doc_root, fs_meta, args>>
scannerVars == <<guid_cache, project_root, hierarchy_providers, script_containers,
                 config_fields>>
vars == <<doc, file_state, doc_root, fs_meta, guid_cache, project_root,
          hierarchy_providers, script_containers, config_fields, args, call, res,
          extracted, scanned>>

(* Option<u32>/Option<String of digits>: None *)
None == -1

(***************************************************************************)
(* Lines and blocks                                                        *)
(***************************************************************************)
Ln(k, t, s, n) == [k |-> k, t |-> t, s |-> s, n |-> n]

TypeLine(t) == Ln("type", t, <<>>, 0)
NameLine(s) == Ln("m_Name", "", s, 0)
ActiveLine(d) == Ln("m_IsActive", "", <<>>, d)
CompLine(id) == Ln("component", "", <<>>, id)
FatherLine(id) == Ln("m_Father", "", <<>>, id)
TagLine(t) == Ln("m_TagString", t, <<>>, 0)
LayerLine(n) == Ln("m_Layer", "", <<>>, n)
ChildrenLine(inline) == Ln("m_Children", "", <<>>, inline)
ChildLine(id) == Ln("child", "", <<>>, id)
(* "<field>: {fileID: id}" for a field name other than m_Father *)
RefFieldLine(field, id) == Ln(field, "", <<>>, id)
ListLine(t) == Ln("list", t, <<>>, 0)
SourcePrefabLine(g) == Ln("m_SourcePrefab", g, <<>>, 0)
TargetLine(id) == Ln("target", "", <<>>, id)
PropertyPathLine(p) == Ln("propertyPath", p, <<>>, 0)
ValueLine(s) == Ln("value", "", s, 0)
ObjRefLine == Ln("objectReference", "", <<>>, 0)
(* "  <name>: <value>", the value as its tokens; a line that is no property *)
PropLine(name, value) == Ln("prop", name, value, 0)
TextLine(value) == Ln("text", "", value, 0)

Block(cls, id, stripped, body) ==
    [cls |-> cls, id |-> id, stripped |-> stripped, body |-> body]

starts_with(text, p) == Len(p) <= Len(text) /\ SubSeq(text, 1, Len(p)) = p

contains(text, p) ==
    \E k \in 0..(Len(text) - Len(p)) : SubSeq(text, k + 1, k + Len(p)) = p

Min(S) == CHOOSE x \in S : \A y \in S : x <= y
Max(S) == CHOOSE x \in S : \A y \in S : x >= y

(* index of the first line of kind k at or after line from, 0 if none *)
FirstLine(body, k, from) ==
    LET S == {i \in from..Len(body) : body[i].k = k}
    IN IF S = {} THEN 0 ELSE Min(S)

(* first line of kind k at or after line l of block b, reading on into the
   following blocks (a lazy .*? in DOTALL mode does not stop at a header) *)
FirstPos(d, k, b, l) ==
    LET own == FirstLine(d[b].body, k, l)
    IN IF own # 0 THEN [b |-> b, l |-> own]
       ELSE LET B == {c \in (b+1)..Len(d) : FirstLine(d[c].body, k, 1) # 0}
            IN IF B = {} THEN [b |-> 0, l |-> 0]
               ELSE [b |-> Min(B), l |-> FirstLine(d[Min(B)].body, k, 1)]

(***************************************************************************)
(* parser.rs                                                               *)
(***************************************************************************)
GameObject(file_id, name, active) ==
    [file_id |-> file_id, name |-> name, active |-> active]

(* as GoMatch, but the header may carry the stripped marker *)
GoMatch_any_header(d, b) ==
    IF /\ d[b].cls = 1
       /\ Len(d[b].body) >= 1
       /\ d[b].body[1] = TypeLine("GameObject")
    THEN LET np == FirstPos(d, "m_Name", b, 2)
         IN IF np.b = 0 THEN [ok |-> FALSE]
            ELSE LET ap == FirstPos(d, "m_IsActive", np.b, np.l + 1)
                 IN IF ap.b = 0 THEN [ok |-> FALSE]
                    ELSE [ok |-> TRUE,
                          go |-> GameObject(d[b].id, d[np.b].body[np.l].s,
                                            d[ap.b].body[ap.l].n = 1),
                          endb |-> ap.b]
    ELSE [ok |-> FALSE]

(* one attempt of the GameObject pattern at the header of block b *)
GoMatch(d, b) ==
    IF /\ d[b].cls = 1
       /\ ~d[b].stripped
       /\ Len(d[b].body) >= 1
       /\ d[b].body[1] = TypeLine("GameObject")
    THEN LET np == FirstPos(d, "m_Name", b, 2)
         IN IF np.b = 0 THEN [ok |-> FALSE]
            ELSE LET ap == FirstPos(d, "m_IsActive", np.b, np.l + 1)
                 IN IF ap.b = 0 THEN [ok |-> FALSE]
                    ELSE [ok |-> TRUE,
                          go |-> GameObject(d[b].id, d[np.b].body[np.l].s,
                                            d[ap.b].body[ap.l].n = 1),
                          endb |-> ap.b]
    ELSE [ok |-> FALSE]

(* captures_iter over the headers lo..hi: non-overlapping matches, left to
   right; pos is the first block whose header lies after the previous match *)
RECURSIVE ScanRange(_, _, _, _)
ScanRange(d, lo, hi, pos) ==
    IF lo > hi THEN [out |-> <<>>, pos |-> pos]
    ELSE IF lo = hi
    THEN IF lo < pos THEN [out |-> <<>>, pos |-> pos]
         ELSE LET m == GoMatch(d, lo)
              IN IF m.ok THEN [out |-> <<m.go>>, pos |-> m.endb + 1]
                 ELSE [out |-> <<>>, pos |-> pos]
    ELSE LET mid == (lo + hi) \div 2
             L == ScanRange(d, lo, mid, pos)
             R == ScanRange(d, mid + 1, hi, L.pos)
         IN [out |-> L.out \o R.out, pos |-> R.pos]

(* as extract_gameobjects, but a container whose name was already seen is
   dropped *)
extract_gameobjects_by_name(d) ==
    LET gos == ScanRange(d, 1, Len(d), 1).out
        first == {i \in 1..Len(gos) : \A j \in 1..(i - 1) : gos[j].name # gos[i].name}
    IN [i \in 1..Cardinality(first) |->
           gos[CHOOSE k \in first : Cardinality({j \in first : j < k}) = i - 1]]

extract_gameobjects(d) == ScanRange(d, 1, Len(d), 1).out

(* Get all blocks from content: stripped headers are matched too *)
parse_all_blocks(d) == [b \in 1..Len(d) |-> <<d[b].cls, d[b].id, d[b].body>>]

(* BlockIndex::new: object identifier -> position of its block; a later
   block with the same identifier replaces the earlier one *)
RECURSIVE IndexRange(_, _, _)
IndexRange(d, lo, hi) ==
    IF lo > hi THEN <<>>
    ELSE IF lo = hi THEN (d[lo].id :> lo)
    ELSE LET mid == (lo + hi) \div 2
         IN IndexRange(d, mid + 1, hi) @@ IndexRange(d, lo, mid)

BlockIndex(d) == IndexRange(d, 1, Len(d))

NoBlock == Block(None, None, FALSE, <<>>)

(* BlockIndex::get: (class_id, body) of the block with this identifier *)
index_get(d, index, id) ==
    IF id \in DOMAIN index THEN d[index[id]] ELSE NoBlock

(* BlockIndex::get_by_class_and_id *)
index_get_by_class_and_id(d, index, class_id, id) ==
    LET blk == index_get(d, index, id)
    IN IF blk.cls = class_id THEN blk ELSE NoBlock

(* parse_component_refs / COMP_REF_RE.captures_iter(go_block) *)
comp_refs(body) ==
    LET cs == SelectSeq(body, LAMBDA ln : ln.k = "component")
    IN [i \in 1..Len(cs) |-> cs[i].n]

(***************************************************************************)
(* gameobject.rs                                                           *)
(***************************************************************************)
extract_tag(body) ==
    LET i == FirstLine(body, "m_TagString", 1)
    IN IF i = 0 THEN "Untagged" ELSE body[i].t

extract_layer(body) ==
    LET i == FirstLine(body, "m_Layer", 1)
    IN IF i = 0 THEN 0 ELSE body[i].n

extract_parent_from_transform(body) ==
    LET i == FirstLine(body, "m_Father", 1)
    IN IF i = 0 THEN None
       ELSE IF body[i].n = 0 THEN None ELSE body[i].n

(* does the line hold a '[' followed by a ']' / a {fileID: n} reference *)
HasBrackets(ln) == ln.k = "list" \/ (ln.k = "m_Children" /\ ln.n = 1)
HasFileRef(ln) == ln.k \in {"child", "m_Father", "m_Parent", "component", "target"}

(* CHILDREN_SECTION_RE: from m_Children: lazily to the first '[' and on to
   the first ']' after it; CHILD_REF_RE over that section, zeros dropped *)
extract_children_from_transform(body) ==
    LET i == FirstLine(body, "m_Children", 1)
        J == IF i = 0 THEN {} ELSE {j \in i..Len(body) : HasBrackets(body[j])}
    IN IF J = {} THEN <<>>
       ELSE LET sect == SubSeq(body, i, Min(J))
                refs == SelectSeq(sect, LAMBDA ln : HasFileRef(ln) /\ ln.n # 0)
            IN [r \in 1..Len(refs) |-> refs[r].n]

(* position in refs of the first reference to a hierarchy provider, 0 if none *)
first_provider(d, index, refs, providers) ==
    LET S == {i \in 1..Len(refs) :
                 /\ refs[i] \in DOMAIN index
                 /\ d[index[refs[i]]].cls \in providers}
    IN IF S = {} THEN 0 ELSE Min(S)

(* the hierarchy provider block found at position i of refs, if any *)
hierarchy_of(d, index, refs, i) ==
    IF i = 0 THEN [parent_id |-> None, children |-> <<>>]
    ELSE [parent_id |-> extract_parent_from_transform(d[index[refs[i]]].body),
          children |-> extract_children_from_transform(d[index[refs[i]]].body)]

provider_of(d, index, refs, providers) ==
    hierarchy_of(d, index, refs, first_provider(d, index, refs, providers))

extract_hierarchy_indexed(d, index, go_body, providers) ==
    provider_of(d, index, comp_refs(go_body), providers)

metadata_of(blk, h) ==
    IF blk = NoBlock
    THEN [tag |-> "Untagged", layer |-> 0, parent_id |-> None, children |-> <<>>]
    ELSE [tag |-> extract_tag(blk.body), layer |-> extract_layer(blk.body),
          parent_id |-> h.parent_id, children |-> h.children]

extract_metadata_indexed(d, index, file_id, providers) ==
    metadata_of(index_get_by_class_and_id(d, index, 1, file_id),
                extract_hierarchy_indexed(d, index,
                    index_get_by_class_and_id(d, index, 1, file_id).body, providers))

(***************************************************************************)
(* component.rs                                                            *)
(***************************************************************************)
(* declared type name: the identifier that opens the body *)
type_name_of(body) ==
    IF Len(body) >= 1 /\ body[1].k = "type" THEN body[1].t ELSE ""

Component(type_name, class_id, file_id) ==
    [type_name |-> type_name, class_id |-> class_id, file_id |-> file_id]

(* extract_components_indexed: one record per component reference of the
   container that resolves through the index, in reference order *)
extract_components_indexed(d, index, file_id) ==
    LET blk == index_get_by_class_and_id(d, index, 1, file_id)
        refs == IF blk = NoBlock THEN <<>> ELSE comp_refs(blk.body)
        ok == SelectSeq(refs, LAMBDA r : r \in DOMAIN index
                                          /\ type_name_of(d[index[r]].body) # "")
    IN [i \in 1..Len(ok) |->
           Component(type_name_of(d[index[ok[i]]].body), d[index[ok[i]]].cls, ok[i])]

(* the decimal digits of p open the decimal digits of x *)
RECURSIVE IsIdPrefix(_, _)
IsIdPrefix(p, x) == p = x \/ (x >= 10 /\ IsIdPrefix(p, x \div 10))

(* content.find("--- !u!<class> &<id>"): the first block whose header
   starts with this text, 0 if none *)
find_header(d, class_id, file_id) ==
    LET B == {b \in 1..Len(d) : d[b].cls = class_id /\ IsIdPrefix(file_id, d[b].id)}
    IN IF B = {} THEN 0 ELSE Min(B)

(* the first guid in a value, "" if none *)
guid_in(value) ==
    LET I == {i \in 1..(Len(value) - 1) : value[i] = "guid:"}
    IN IF I = {} THEN "" ELSE value[Min(I) + 1]

(* "<script_field>: {fileID: n, guid: <32 hex digits>" *)
has_script_ref(ln, script_field) ==
    /\ ln.k = "prop" /\ ln.t = script_field
    /\ Len(ln.s) >= 3 /\ ln.s[1] = "{" /\ ln.s[2] = "guid:"

(* script_pattern: from the first header that starts with
   "--- !u!<class> &<id>", lazily over anything, block boundaries included,
   to the first script reference; "" if there is none *)
script_guid_of(d, class_id, file_id, script_field) ==
    LET from == find_header(d, class_id, file_id)
        B == IF from = 0 THEN {}
             ELSE {b \in from..Len(d) :
                     \E l \in 1..Len(d[b].body) : has_script_ref(d[b].body[l], script_field)}
    IN IF B = {} THEN ""
       ELSE LET body == d[Min(B)].body
            IN guid_in(body[Min({l \in 1..Len(body) :
                                    has_script_ref(body[l], script_field)})].s)

(* Path::file_stem: the last path component without its last extension *)
file_name(path) ==
    LET S == {i \in 1..Len(path) : path[i] = "/"}
    IN IF S = {} THEN path ELSE SubSeq(path, Max(S) + 1, Len(path))

file_stem(path) ==
    LET name == file_name(path)
        D == {i \in 2..Len(name) : name[i] = "."}
    IN IF D = {} THEN name ELSE SubSeq(name, 1, Max(D) - 1)

(* METADATA_PROPERTIES *)
METADATA_PROPERTIES ==
    {"ObjectHideFlags", "CorrespondingSourceObject", "PrefabInstance", "PrefabAsset",
     "PrefabInternal"}

(* prop_re, group 2: the property name without a leading m_ *)
clean_name(name) ==
    CASE name = "m_Script" -> "Script"
      [] name = "m_Enabled" -> "Enabled"
      [] name = "m_Data" -> "Data"
      [] name = "m_After" -> "After"
      [] name = "m_First" -> "First"
      [] name = "m_Open" -> "Open"
      [] name = "m_ObjectHideFlags" -> "ObjectHideFlags"
      [] OTHER -> name

(* prop_re: "name: value" with a non-empty value *)
is_prop(ln) == ln.k = "prop" /\ ln.s # <<>>

(* lines[j].trim() *)
line_text(ln) ==
    CASE ln.k = "prop" -> <<ln.t, ":", " ">> \o ln.s
      [] ln.k = "type" -> <<ln.t, ":">>
      [] ln.k = "text" -> ln.s
      [] OTHER -> <<ln.k>>

count_of(value, c) == Cardinality({i \in 1..Len(value) : value[i] = c})

(* ob <= cb && obk <= cbk *)
balanced(value) ==
    /\ count_of(value, "{") <= count_of(value, "}")
    /\ count_of(value, "[") <= count_of(value, "]")

(* the continuation loop without the separating space *)
RECURSIVE continuation_no_space(_, _, _)
continuation_no_space(lines, j, value) ==
    IF j > Len(lines) THEN [value |-> value, next |-> j]
    ELSE IF balanced(value \o line_text(lines[j]))
         THEN [value |-> value \o line_text(lines[j]), next |-> j + 1]
         ELSE continuation_no_space(lines, j + 1, value \o line_text(lines[j]))

(* the continuation loop: append ' ' and the trimmed line, stop once the
   counts balance or the block ends; next is the line to go on with *)
RECURSIVE continuation(_, _, _)
continuation(lines, j, value) ==
    IF j > Len(lines) THEN [value |-> value, next |-> j]
    ELSE IF balanced(value \o <<" ">> \o line_text(lines[j]))
         THEN [value |-> value \o <<" ">> \o line_text(lines[j]), next |-> j + 1]
         ELSE continuation(lines, j + 1, value \o <<" ">> \o line_text(lines[j]))

(* clean_value and the index of the next line to parse *)
clean_value(lines, i) ==
    IF balanced(lines[i].s) THEN [value |-> lines[i].s, next |-> i + 1]
    ELSE continuation(lines, i + 1, lines[i].s)

resolve_guid_in_value(value, cache) ==
    IF guid_in(value) # "" /\ guid_in(value) \in DOMAIN cache
    THEN value \o <<" ", "->", " ">> \o cache[guid_in(value)]
    ELSE value

(* props.insert *)
insert(props, name, value) ==
    [n \in DOMAIN props \cup {name} |-> IF n = name THEN value ELSE props[n]]

RECURSIVE parse_properties(_, _, _, _)
parse_properties(lines, i, cache, props) ==
    IF i > Len(lines) THEN props
    ELSE IF ~is_prop(lines[i]) \/ clean_name(lines[i].t) \in METADATA_PROPERTIES
    THEN parse_properties(lines, i + 1, cache, props)
    ELSE parse_properties(lines, clean_value(lines, i).next, cache,
             insert(props, clean_name(lines[i].t),
                    resolve_guid_in_value(clean_value(lines, i).value, cache)))

extract_properties(d, file_id, class_id, cache) ==
    IF find_header(d, class_id, file_id) = 0 THEN <<>>
    ELSE parse_properties(d[find_header(d, class_id, file_id)].body, 1, cache, <<>>)

(* header_pattern: the first non-stripped block with exactly this
   identifier whose first line declares a type, 0 if none *)
component_header(d, file_id) ==
    LET B == {b \in 1..Len(d) :
                 d[b].id = file_id /\ ~d[b].stripped /\ type_name_of(d[b].body) # ""}
    IN IF B = {} THEN 0 ELSE Min(B)

NoGuid == ""

(* Option<String>: None, for a path *)
NoPath == <<>>

script_of(guid, cache) ==
    [script_guid |-> guid,
     script_path |-> IF guid # NoGuid /\ guid \in DOMAIN cache THEN cache[guid] ELSE NoPath,
     script_name |-> IF guid # NoGuid /\ guid \in DOMAIN cache
                     THEN file_stem(cache[guid]) ELSE NoPath]

extract_single_component_with_config(d, file_id, cache, config) ==
    LET b == component_header(d, file_id)
        sc == IF d[b].cls \in config.script_containers
              THEN script_of(script_guid_of(d, d[b].cls, file_id, config.script_field),
                             cache)
              ELSE script_of(NoGuid, cache)
    IN [type_name |-> type_name_of(d[b].body), class_id |-> d[b].cls,
        file_id |-> file_id, script_path |-> sc.script_path,
        script_guid |-> sc.script_guid, script_name |-> sc.script_name,
        properties |-> extract_properties(d, file_id, d[b].cls, cache)]

extract_components_with_config(d, gameobject_file_id, cache, config) ==
    LET g == find_header(d, config.gameobject_class_id, gameobject_file_id)
        refs == IF g = 0 THEN <<>> ELSE comp_refs(d[g].body)
        ok == SelectSeq(refs, LAMBDA r : component_header(d, r) # 0)
    IN [i \in 1..Len(ok) |->
           extract_single_component_with_config(d, ok[i], cache, config)]

(***************************************************************************)
(* prefab.rs                                                               *)
(***************************************************************************)

(* extract_prefab_block: content.find("--- !u!1001 &<id>"), the first header
   that starts with this text, up to the next header *)
extract_prefab_block(d, file_id) ==
    LET B == {b \in 1..Len(d) : d[b].cls = 1001 /\ IsIdPrefix(file_id, d[b].id)}
    IN IF B = {} THEN NoBlock ELSE d[Min(B)]

Unnamed == <<"<", "u", "n", "n", "a", "m", "e", "d", ">">>

(* the characters of a property path *)
PathChars(p) ==
    CASE p = "m_Name" -> <<"m", "_", "N", "a", "m", "e">>
      [] p = "m_NameSuffix" ->
             <<"m", "_", "N", "a", "m", "e", "S", "u", "f", "f", "i", "x">>
      [] p = "m_Layer" -> <<"m", "_", "L", "a", "y", "e", "r">>
      [] OTHER -> <<"?">>

(* line.contains("propertyPath: m_Name"): the text after "propertyPath: "
   only has to start with m_Name *)
ContainsNamePath(ln) ==
    ln.k = "propertyPath" /\ starts_with(PathChars(ln.t), PathChars("m_Name"))

extract_name_from_modifications(body) ==
    LET S == {i \in 1..(Len(body) - 1) :
                 /\ ContainsNamePath(body[i])
                 /\ body[i+1].k = "value"
                 /\ body[i+1].s # <<>>}
    IN IF S = {} THEN Unnamed ELSE body[Min(S) + 1].s

extract_source_guid(body) ==
    LET i == FirstLine(body, "m_SourcePrefab", 1)
    IN IF i = 0 THEN "" ELSE body[i].t

(* as count_modifications, counting the property-path lines *)
count_property_paths(body) ==
    Len(SelectSeq(body, LAMBDA ln : ln.k = "propertyPath"))

count_modifications(body) ==
    Len(SelectSeq(body, LAMBDA ln : ln.k = "target"))

(* extract_modifications: one modification per "- target:" line, reading the
   property path and the value from the up to four lines after it and
   stopping after a further target line *)
Min2(a, b) == IF a <= b THEN a ELSE b

mod_stop(body, i) ==
    LET S == {j \in (i + 2)..Min2(Len(body), i + 4) : body[j].k = "target"}
    IN IF S = {} THEN Min2(Len(body), i + 4) ELSE Min(S)

last_line(body, k, lo, hi) ==
    LET S == {j \in lo..hi : body[j].k = k /\ (k = "propertyPath" => body[j].t # "")}
    IN IF S = {} THEN 0 ELSE Max(S)

PrefabModification(body, i, p, v) ==
    [target_file_id |-> body[i].n,
     property_path |-> IF p = 0 THEN "" ELSE body[p].t,
     value |-> IF v = 0 THEN <<>> ELSE body[v].s]

(* the k-th element of a set of numbers, in increasing order *)
Nth(S, k) == CHOOSE x \in S : Cardinality({y \in S : y < x}) = k - 1

modification_at(body, i) ==
    PrefabModification(body, i,
                       last_line(body, "propertyPath", i + 1, mod_stop(body, i)),
                       last_line(body, "value", i + 1, mod_stop(body, i)))

target_lines(body) == {i \in 1..Len(body) : body[i].k = "target"}

extract_modifications(body) ==
    [k \in 1..Cardinality(target_lines(body)) |->
        modification_at(body, Nth(target_lines(body), k))]

mod_pair(m) == [propertyPath |-> m.property_path, value |-> m.value]

(* as group_by_target, each bucket holding the last pair only *)
group_by_target_last(mods) ==
    [t \in {mods[i].target_file_id : i \in 1..Len(mods)} |->
        <<mod_pair(mods[Max({i \in 1..Len(mods) : mods[i].target_file_id = t})])>>]

(* grouped.entry(target_file_id).or_default().push(..) for every modification *)
group_by_target(mods) ==
    [t \in {mods[i].target_file_id : i \in 1..Len(mods)} |->
        LET ms == SelectSeq(mods, LAMBDA m : m.target_file_id = t)
        IN [i \in 1..Len(ms) |-> mod_pair(ms[i])]]

PrefabInstanceInfo(d, file_id, cache) ==
    LET body == extract_prefab_block(d, file_id).body
        guid == extract_source_guid(body)
    IN [name |-> extract_name_from_modifications(body),
        file_id |-> file_id,
        source_guid |-> guid,
        source_prefab |-> IF guid \in DOMAIN cache THEN cache[guid] ELSE <<>>,
        modifications_count |-> count_modifications(body)]

extract_prefab_instances(d, cache) ==
    LET hs == SelectSeq(d, LAMBDA blk : blk.cls = 1001 /\ ~blk.stripped)
    IN [i \in 1..Len(hs) |-> PrefabInstanceInfo(d, hs[i].id, cache)]


(***************************************************************************)
(* mod.rs: helpers                                                         *)
(***************************************************************************)
Lower(c) ==
    CASE c = "A" -> "a" [] c = "B" -> "b" [] c = "C" -> "c" [] c = "D" -> "d"
      [] c = "E" -> "e" [] c = "F" -> "f" [] c = "G" -> "g" [] c = "H" -> "h"
      [] c = "I" -> "i" [] c = "J" -> "j" [] c = "K" -> "k" [] c = "L" -> "l"
      [] c = "M" -> "m" [] c = "N" -> "n" [] c = "O" -> "o" [] c = "P" -> "p"
      [] c = "Q" -> "q" [] c = "R" -> "r" [] c = "S" -> "s" [] c = "T" -> "t"
      [] c = "U" -> "u" [] c = "V" -> "v" [] c = "W" -> "w" [] c = "X" -> "x"
      [] c = "Y" -> "y" [] c = "Z" -> "z"
      [] OTHER -> c

to_lowercase(s) == [i \in 1..Len(s) |-> Lower(s[i])]

IsGlobChar(c) == c = "*" \/ c = "?"
HasGlob(p) == \E i \in 1..Len(p) : IsGlobChar(p[i])

(* as glob_atom, without the escape of '.' *)
glob_atom_unescaped(c) ==
    IF c = "*" THEN [a |-> "any_run", c |-> ""]
    ELSE IF c = "?" \/ c = "." THEN [a |-> "any_char", c |-> ""]
    ELSE [a |-> "literal", c |-> c]

(* the regex atoms glob_to_regex pushes for one pattern character *)
glob_atom(c) ==
    IF c = "*" THEN [a |-> "any_run", c |-> ""]
    ELSE IF c = "?" THEN [a |-> "any_char", c |-> ""]
    ELSE [a |-> "literal", c |-> c]

(* glob_to_regex: <<>> stands for None (no glob character in the pattern) *)
glob_to_regex(p) ==
    IF ~HasGlob(p) THEN <<>> ELSE [i \in 1..Len(p) |-> glob_atom(p[i])]

(* (?i)^ atoms $ against text from position j *)
RECURSIVE re_match(_, _, _, _)
re_match(re, i, text, j) ==
    IF i > Len(re) THEN j > Len(text)
    ELSE IF re[i].a = "any_run"
    THEN re_match(re, i + 1, text, j)
         \/ (j <= Len(text) /\ re_match(re, i, text, j + 1))
    ELSE IF re[i].a = "any_char"
    THEN j <= Len(text) /\ re_match(re, i + 1, text, j + 1)
    ELSE /\ j <= Len(text)
         /\ Lower(text[j]) = Lower(re[i].c)
         /\ re_match(re, i + 1, text, j + 1)

is_match(re, text) == re_match(re, 1, text, 1)

(* f64 scores as fractions *)
Score(n) == [num |-> n, den |-> 1]
NoScore == [num |-> None, den |-> 1]
ScoreLess(a, b) == a.num * b.den < b.num * a.den

(* as calculate_fuzzy_score, with the containment test ahead of the prefix test *)
calculate_fuzzy_score_contains_first(pattern, text) ==
    IF pattern = text THEN Score(100)
    ELSE IF contains(text, pattern) THEN Score(70)
    ELSE IF starts_with(text, pattern) THEN Score(85)
    ELSE Score(0)

calculate_fuzzy_score(pattern, text) ==
    IF pattern = text THEN Score(100)
    ELSE IF starts_with(text, pattern) THEN Score(85)
    ELSE IF contains(text, pattern) THEN Score(70)
    ELSE IF pattern = <<>> THEN Score(0)
    ELSE [num |-> 50 * Cardinality({i \in 1..Len(pattern) :
                                      \E j \in 1..Len(text) : text[j] = pattern[i]}),
          den |-> Len(pattern)]

(* FindResult::from_game_object / from_prefab_instance *)
from_game_object(go, score) ==
    [name |-> go.name, file_id |-> go.file_id, result_type |-> "GameObject",
     match_score |-> score]

from_prefab_instance(pi, score) ==
    [name |-> pi.name, file_id |-> pi.file_id, result_type |-> "PrefabInstance",
     match_score |-> score]

(* matches.sort_by(score descending): a stable sort *)
sort_by_score(ms) ==
    LET rank(i) == Cardinality({j \in 1..Len(ms) :
                       \/ ScoreLess(ms[i].match_score, ms[j].match_score)
                       \/ (j < i /\ ~ScoreLess(ms[j].match_score, ms[i].match_score))})
    IN [r \in 1..Len(ms) |-> ms[CHOOSE i \in 1..Len(ms) : rank(i) = r - 1]]

name_matches(name, pattern, fuzzy) ==
    LET re == glob_to_regex(pattern)
    IN IF re # <<>> THEN is_match(re, name)
       ELSE IF fuzzy THEN contains(to_lowercase(name), to_lowercase(pattern))
       ELSE name = pattern

name_score(name, pattern, fuzzy) ==
    IF ~fuzzy THEN NoScore
    ELSE IF glob_to_regex(pattern) # <<>> THEN Score(80)
    ELSE calculate_fuzzy_score(to_lowercase(pattern), to_lowercase(name))

(* the body of find_by_name once the document is read *)
find_matches(d, cache, pattern, fuzzy) ==
    LET gos == SelectSeq(extract_gameobjects(d),
                         LAMBDA go : name_matches(go.name, pattern, fuzzy))
        pis == SelectSeq(extract_prefab_instances(d, cache),
                         LAMBDA pi : name_matches(pi.name, pattern, fuzzy))
        ms == [i \in 1..Len(gos) |->
                  from_game_object(gos[i], name_score(gos[i].name, pattern, fuzzy))]
              \o [i \in 1..Len(pis) |->
                  from_prefab_instance(pis[i], name_score(pis[i].name, pattern, fuzzy))]
    IN IF fuzzy THEN sort_by_score(ms) ELSE ms

(* scans of a session that are followed *)
MaxScans == 2

(* a sidecar file: the stable identifier it declares and the path of its
   asset relative to the root; a path is its characters *)
Meta(guid, path) == [guid |-> guid, path |-> path]


(* scan_meta_files: guid_cache.insert for every sidecar file, in directory
   order; HashMap::insert replaces the path of a key already present *)
RECURSIVE scan_meta_files(_, _, _)
scan_meta_files(cache, metas, i) ==
    IF i > Len(metas) THEN cache
    ELSE scan_meta_files((metas[i].guid :> metas[i].path) @@ cache, metas, i + 1)

(* build_guid_cache: scans when <root>/Assets exists *)
build_guid_cache(cache, root) ==
    IF root \in DOMAIN fs_meta THEN scan_meta_files(cache, fs_meta[root], 1) ELSE cache

(* the roots scanned so far, after build_guid_cache(root) *)
scanned_after(root) ==
    IF root \in DOMAIN fs_meta THEN Append(scanned, root) ELSE scanned

(* as ensured_scanned, scanning on every query whose document has a root *)
ensured_scanned_every_query ==
    IF doc_root # <<>> /\ Len(scanned) <= MaxScans
    THEN scanned_after(doc_root[1]) ELSE scanned

(* ensure_guid_resolver: the scanner state after the call *)
ensured_root == IF project_root = <<>> THEN doc_root ELSE project_root
ensured_cache ==
    IF project_root = <<>> /\ doc_root # <<>>
    THEN build_guid_cache(guid_cache, doc_root[1]) ELSE guid_cache
ensured_scanned ==
    IF project_root = <<>> /\ doc_root # <<>>
    THEN scanned_after(doc_root[1]) ELSE scanned

GameObjectDetail(go, m, components) ==
    [name |-> go.name, file_id |-> go.file_id, active |-> go.active,
     tag |-> m.tag, layer |-> m.layer, depth |-> None,
     components |-> components,
     children |-> m.children, parent_transform_id |-> m.parent_id]

extract_gameobject_details_indexed(d, index, go, providers) ==
    GameObjectDetail(go, extract_metadata_indexed(d, index, go.file_id, providers),
                     extract_components_indexed(d, index, go.file_id))

(***************************************************************************)
(* mod.rs: inspect                                                         *)
(***************************************************************************)
Digits == {"0", "1", "2", "3", "4", "5", "6", "7", "8", "9"}
DigitVal(c) ==
    CASE c = "0" -> 0 [] c = "1" -> 1 [] c = "2" -> 2 [] c = "3" -> 3
      [] c = "4" -> 4 [] c = "5" -> 5 [] c = "6" -> 6 [] c = "7" -> 7
      [] c = "8" -> 8 [] c = "9" -> 9

(* identifier.chars().all(|c| c.is_ascii_digit()) *)
all_digits(s) == \A i \in 1..Len(s) : s[i] \in Digits

RECURSIVE DecimalValue(_, _)
DecimalValue(s, n) ==
    IF n = 0 THEN 0 ELSE 10 * DecimalValue(s, n - 1) + DigitVal(s[n])

(* the object identifier a digit string writes; None when no identifier is
   written that way (empty, or a leading zero) *)
IdOfDigits(s) ==
    IF s = <<>> \/ (Len(s) > 1 /\ s[1] = "0") THEN None
    ELSE DecimalValue(s, Len(s))

class_id_to_name(class_id) ==
    CASE class_id = 1 -> "GameObject" [] class_id = 2 -> "Component"
      [] class_id = 4 -> "Transform" [] class_id = 8 -> "Behaviour"
      [] class_id = 12 -> "ParticleAnimator" [] class_id = 20 -> "Camera"
      [] class_id = 23 -> "MeshRenderer" [] class_id = 25 -> "Renderer"
      [] class_id = 33 -> "MeshFilter" [] class_id = 54 -> "Rigidbody"
      [] class_id = 64 -> "MeshCollider" [] class_id = 65 -> "BoxCollider"
      [] class_id = 82 -> "AudioSource" [] class_id = 108 -> "Light"
      [] class_id = 111 -> "Animation" [] class_id = 114 -> "MonoBehaviour"
      [] class_id = 115 -> "MonoScript" [] class_id = 120 -> "LineRenderer"
      [] class_id = 124 -> "Behaviour" [] class_id = 135 -> "SphereCollider"
      [] class_id = 136 -> "CapsuleCollider" [] class_id = 137 -> "SkinnedMeshRenderer"
      [] class_id = 198 -> "ParticleSystem" [] class_id = 205 -> "LODGroup"
      [] class_id = 212 -> "SpriteRenderer" [] class_id = 222 -> "CanvasRenderer"
      [] class_id = 223 -> "Canvas" [] class_id = 224 -> "RectTransform"
      [] class_id = 225 -> "CanvasGroup" [] class_id = 1001 -> "PrefabInstance"
      [] OTHER -> "Unknown"

NoResult == [kind |-> "none"]

AmbiguousError(ms) ==
    [kind |-> "error", is_error |-> TRUE, error |-> "multiple",
     ids |-> [i \in 1..Len(ms) |-> ms[i].file_id]]

(* the block the pattern "--- !u!(\d+) &<target>(?: stripped)?" finds first:
   the text after '&' only has to start with the target *)
header_starts_with(blk, identifier) ==
    \/ identifier = <<>>
    \/ IdOfDigits(identifier) # None /\ IsIdPrefix(IdOfDigits(identifier), blk.id)

first_header(d, identifier) ==
    LET B == {b \in 1..Len(d) : header_starts_with(d[b], identifier)}
    IN IF B = {} THEN 0 ELSE Min(B)

build_detail_output(det, verbose) ==
    [kind |-> "detail", name |-> det.name, file_id |-> det.file_id,
     active |-> det.active, tag |-> det.tag, layer |-> det.layer,
     components |-> det.components,
     children |-> IF verbose THEN det.children ELSE <<>>,
     parent_transform_id |-> IF verbose THEN det.parent_transform_id ELSE None]

build_prefab_instance_output(d, pi, include_properties) ==
    [kind |-> "prefab", info |-> pi,
     has_modifications |->
         include_properties /\ extract_prefab_block(d, pi.file_id) # NoBlock,
     modifications |->
         IF include_properties /\ extract_prefab_block(d, pi.file_id) # NoBlock
         THEN group_by_target(extract_modifications(extract_prefab_block(d, pi.file_id).body))
         ELSE <<>>]

(* the error for an identifier that names no container and no prefab
   instance; b is the block first_header found *)
wrong_kind(d, b, target) ==
    IF b = 0 THEN NoResult
    ELSE IF d[b].cls = 1 /\ d[b].stripped /\ d[b].id = target
    THEN [kind |-> "error", is_error |-> TRUE, error |-> "stripped", ids |-> <<target>>]
    ELSE [kind |-> "error", is_error |-> TRUE,
          error |-> class_id_to_name(d[b].cls), class_id |-> d[b].cls,
          ids |-> <<target>>]

(* position of the first element with this file_id, 0 if none *)
find_file_id(s, target) ==
    LET S == {i \in 1..Len(s) : s[i].file_id = target}
    IN IF S = {} THEN 0 ELSE Min(S)

inspect_found(d, providers, identifier, verbose, include_properties, target, prefabs, p, gos, g) ==
    IF p # 0 THEN build_prefab_instance_output(d, prefabs[p], include_properties)
    ELSE IF g # 0
    THEN build_detail_output(
             extract_gameobject_details_indexed(d, BlockIndex(d), gos[g], providers),
             verbose)
    ELSE wrong_kind(d, first_header(d, identifier), target)

inspect_lists(d, providers, identifier, verbose, include_properties, target, prefabs, gos) ==
    inspect_found(d, providers, identifier, verbose, include_properties, target,
                  prefabs, find_file_id(prefabs, target), gos, find_file_id(gos, target))

(* inspect, from the target identifier on *)
inspect_target(d, cache, providers, identifier, verbose, include_properties) ==
    inspect_lists(d, providers, identifier, verbose, include_properties,
                  IdOfDigits(identifier),
                  extract_prefab_instances(d, cache), extract_gameobjects(d))

(* the digit string that writes an object identifier *)
RECURSIVE DigitsOf(_)
DigitsOf(n) ==
    IF n < 10 THEN <<CHOOSE x \in Digits : DigitVal(x) = n>>
    ELSE DigitsOf(n \div 10) \o <<CHOOSE x \in Digits : DigitVal(x) = n % 10>>

(* as name_search, by exact name *)
name_search_exact(d, cache, identifier) ==
    IF all_digits(identifier) THEN <<>> ELSE find_matches(d, cache, identifier, FALSE)

(* the name search of inspect: <<>> when the identifier is numeric *)
name_search(d, cache, identifier) ==
    IF all_digits(identifier) THEN <<>> ELSE find_matches(d, cache, identifier, TRUE)

(* as resolve, but the first of several matches is taken *)
resolve_first(d, cache, providers, identifier, verbose, include_properties, ms) ==
    IF ~all_digits(identifier) /\ Len(ms) = 0 THEN NoResult
    ELSE inspect_target(d, cache, providers,
                        IF all_digits(identifier) THEN identifier
                        ELSE DigitsOf(ms[1].file_id),
                        verbose, include_properties)

(* matches.len() > 1, matches.first()? and the lookup of the target *)
resolve(d, cache, providers, identifier, verbose, include_properties, ms) ==
    IF Len(ms) > 1 THEN AmbiguousError(ms)
    ELSE IF ~all_digits(identifier) /\ Len(ms) = 0 THEN NoResult
    ELSE inspect_target(d, cache, providers,
                        IF all_digits(identifier) THEN identifier
                        ELSE DigitsOf(ms[1].file_id),
                        verbose, include_properties)

inspect_result(d, cache, providers, identifier, verbose, include_properties) ==
    resolve(d, cache, providers, identifier, verbose, include_properties,
            name_search(d, cache, identifier))

(***************************************************************************)
(* mod.rs: inspect_all, inspect_all_paginated                              *)
(***************************************************************************)
inspect_all_result(d, cache, providers) ==
    LET index == BlockIndex(d)
        gos == extract_gameobjects(d)
        detailed == [i \in 1..Len(gos) |-> extract_gameobject_details_indexed(d, index, gos[i], providers)]
    IN [count |-> Len(detailed), gameobjects |-> detailed,
        prefab_instances |-> extract_prefab_instances(d, cache)]

DefaultPageSize == 200
MaxPageSize == 1000
DefaultMaxDepth == 10
MaxMaxDepth == 50

(* as effective_page_size, without the cap *)
effective_page_size_uncapped(page_size) ==
    IF page_size = None THEN DefaultPageSize ELSE page_size

effective_page_size(page_size) ==
    IF page_size = None THEN DefaultPageSize ELSE Min2(page_size, MaxPageSize)

effective_max_depth(max_depth) ==
    IF max_depth = None THEN DefaultMaxDepth ELSE Min2(max_depth, MaxMaxDepth)

effective_cursor(cursor) == IF cursor = None THEN 0 ELSE cursor

(* Phase 1: the hierarchy provider of a container and that provider's parent *)
GoHierarchyInfo(d, index, gos, idx, providers) ==
    LET blk == index_get_by_class_and_id(d, index, 1, gos[idx].file_id)
        refs == IF blk = NoBlock THEN <<>> ELSE comp_refs(blk.body)
        i == first_provider(d, index, refs, providers)
    IN [go_idx |-> idx,
        transform_file_id |-> IF i = 0 THEN None ELSE refs[i],
        parent_transform_id |->
            extract_metadata_indexed(d, index, gos[idx].file_id, providers).parent_id]

(* Phase 2: parent_map.insert for every info with both identifiers *)
build_parent_map(infos) ==
    LET I == {i \in 1..Len(infos) : /\ infos[i].transform_file_id # None
                                     /\ infos[i].parent_transform_id # None}
    IN [t \in {infos[i].transform_file_id : i \in I} |->
           infos[Max({i \in I : infos[i].transform_file_id = t})].parent_transform_id]

RECURSIVE depth_walk(_, _, _, _)
depth_walk(parent_map, current, depth, max_depth) ==
    IF current \in DOMAIN parent_map /\ parent_map[current] # 0
    THEN IF depth + 1 > max_depth THEN depth + 1
         ELSE depth_walk(parent_map, parent_map[current], depth + 1, max_depth)
    ELSE depth

(* as compute_depth, counting the object itself *)
compute_depth_from_one(parent_map, tid, max_depth) ==
    depth_walk(parent_map, tid, 1, max_depth)

compute_depth(parent_map, tid, max_depth) == depth_walk(parent_map, tid, 0, max_depth)

GoWithDepth(parent_map, info, max_depth) ==
    LET depth == IF info.transform_file_id = None THEN 0
                 ELSE compute_depth(parent_map, info.transform_file_id, max_depth)
    IN [go_idx |-> info.go_idx, depth |-> depth,
        at_boundary |-> max_depth < MaxMaxDepth /\ depth = max_depth]

(* as depth_kept, dropping the containers at the boundary too *)
depth_kept_strict(gwd, max_depth) ==
    ~(max_depth < MaxMaxDepth /\ gwd.depth >= max_depth)

depth_kept(gwd, max_depth) == ~(max_depth < MaxMaxDepth /\ gwd.depth > max_depth)

(* the component type filter: some referenced block declares that type *)
has_component_type(d, index, go, filter_type) ==
    LET blk == index_get_by_class_and_id(d, index, 1, go.file_id)
        refs == IF blk = NoBlock THEN <<>> ELSE comp_refs(blk.body)
    IN \E i \in 1..Len(refs) :
          /\ refs[i] \in DOMAIN index
          /\ type_name_of(d[index[refs[i]]].body) = filter_type

NoFilter == ""

filtered_list(d, index, gos, providers, max_depth, filter_component) ==
    LET infos == [i \in 1..Len(gos) |-> GoHierarchyInfo(d, index, gos, i, providers)]
        parent_map == build_parent_map(infos)
        all == [i \in 1..Len(gos) |-> GoWithDepth(parent_map, infos[i], max_depth)]
        by_depth == SelectSeq(all, LAMBDA g : depth_kept(g, max_depth))
    IN IF filter_component = NoFilter THEN by_depth
       ELSE SelectSeq(by_depth,
                LAMBDA g : has_component_type(d, index, gos[g.go_idx], filter_component))

(* as page_end, one element further *)
page_end_plus_one(start, page_size, len) == Min2(start + page_size + 1, len)

(* Phase 3: the bounds of the page *)
page_end(start, page_size, len) == Min2(start + page_size, len)

(* as page_slice, reading the cursor as a one-based position *)
page_slice_one_based(filtered, start, end) ==
    IF start < Len(filtered)
    THEN SubSeq(filtered, IF start = 0 THEN 1 ELSE start, end) ELSE <<>>

page_slice(filtered, start, end) ==
    IF start < Len(filtered) THEN SubSeq(filtered, start + 1, end) ELSE <<>>

page_detail(d, index, gos, providers, gwd) ==
    [extract_gameobject_details_indexed(d, index, gos[gwd.go_idx], providers)
        EXCEPT !.depth = gwd.depth,
               !.children = IF gwd.at_boundary THEN <<>> ELSE @]

inspect_all_paginated_result(d, cache, providers, o) ==
    LET page_size == effective_page_size(o.page_size)
        cursor == effective_cursor(o.cursor)
        max_depth == effective_max_depth(o.max_depth)
        index == BlockIndex(d)
        gos == extract_gameobjects(d)
        filtered == filtered_list(d, index, gos, providers, max_depth, o.filter_component)
        end == page_end(cursor, page_size, Len(filtered))
        truncated == end < Len(filtered)
        slice == page_slice(filtered, cursor, end)
    IN [total |-> Len(filtered),
        total_in_scene |-> Len(gos),
        cursor |-> cursor,
        next_cursor |-> IF truncated THEN end ELSE None,
        truncated |-> truncated,
        page_size |-> page_size,
        gameobjects |-> [i \in 1..Len(slice) |->
                            page_detail(d, index, gos, providers, slice[i])],
        prefab_instances |->
            IF cursor = 0 THEN extract_prefab_instances(d, cache) ELSE <<>>,
        error |-> ""]

paginated_failure(o, error) ==
    [total |-> 0, total_in_scene |-> 0, cursor |-> effective_cursor(o.cursor),
     next_cursor |-> None, truncated |-> FALSE,
     page_size |-> effective_page_size(o.page_size),
     gameobjects |-> <<>>, prefab_instances |-> <<>>, error |-> error]

file_ids(s) == [i \in 1..Len(s) |-> s[i].file_id]

(***************************************************************************)
(* Scanner operations                                                      *)
(***************************************************************************)
add_hierarchy_provider(class_id) ==
    /\ hierarchy_providers' = hierarchy_providers \cup {class_id}
    /\ call' = [op |-> "add_hierarchy_provider", class_id |-> class_id]
    /\ res' = <<>>
    /\ extracted' = <<>>
    /\ UNCHANGED <<fsVars, guid_cache, project_root, script_containers, config_fields,
                   scanned>>

add_script_container(class_id) ==
    /\ script_containers' = script_containers \cup {class_id}
    /\ call' = [op |-> "add_script_container", class_id |-> class_id]
    /\ res' = <<>>
    /\ extracted' = <<>>
    /\ UNCHANGED <<fsVars, guid_cache, project_root, hierarchy_providers, config_fields,
                   scanned>>

(* calls of one paging walk that are followed *)
MaxWalkCalls == 5

(* ComponentConfig::remove_hierarchy_provider *)
remove_hierarchy_provider(class_id) ==
    /\ hierarchy_providers' = hierarchy_providers \ {class_id}
    /\ call' = [op |-> "remove_hierarchy_provider", class_id |-> class_id]
    /\ res' = <<>>
    /\ extracted' = <<>>
    /\ UNCHANGED <<fsVars, guid_cache, project_root, script_containers, config_fields,
                   scanned>>

(* a removal that takes the identifier out of both sets *)
remove_from_both(class_id) ==
    /\ script_containers' = script_containers \ {class_id}
    /\ hierarchy_providers' = hierarchy_providers \ {class_id}
    /\ call' = [op |-> "remove_script_container", class_id |-> class_id]
    /\ res' = <<>>
    /\ extracted' = <<>>
    /\ UNCHANGED <<fsVars, guid_cache, project_root, config_fields, scanned>>

(* ComponentConfig::remove_script_container *)
remove_script_container(class_id) ==
    /\ script_containers' = script_containers \ {class_id}
    /\ call' = [op |-> "remove_script_container", class_id |-> class_id]
    /\ res' = <<>>
    /\ extracted' = <<>>
    /\ UNCHANGED <<fsVars, guid_cache, project_root, hierarchy_providers, config_fields,
                   scanned>>

set_project_root(path) ==
    /\ Len(scanned) < MaxScans
    /\ project_root' = <<path>>
    /\ guid_cache' = build_guid_cache(guid_cache, path)
    /\ scanned' = scanned_after(path)
    /\ call' = [op |-> "set_project_root", path |-> path]
    /\ res' = <<>>
    /\ extracted' = <<>>
    /\ UNCHANGED <<fsVars, hierarchy_providers, script_containers, config_fields>>

scan_scene_minimal ==
    /\ call' = [op |-> "scan_scene_minimal"]
    /\ res' = IF file_state = "ok" THEN extract_gameobjects(doc) ELSE <<>>
    /\ extracted' = <<>>
    /\ UNCHANGED <<fsVars, scannerVars, scanned>>

(* as Query, with ensure_guid_resolver ahead of the checks of the file *)
Query_resolver_first(c, failure, result) ==
    /\ call' = c
    /\ project_root' = ensured_root
    /\ guid_cache' = ensured_cache
    /\ scanned' = ensured_scanned
    /\ res' = IF file_state = "ok" THEN result ELSE failure
    /\ UNCHANGED <<fsVars, hierarchy_providers, script_containers, config_fields>>

(* build_gameobject_output, with the tag and layer the scans add *)
build_gameobject_output(go, components, verbose, m) ==
    [name |-> go.name, active |-> go.active,
     file_id |-> IF verbose THEN go.file_id ELSE None,
     component_count |-> IF verbose THEN Len(components) ELSE None,
     tag |-> m.tag, layer |-> m.layer]

(* the entry scan_scene_with_components appends for a prefab instance *)
prefab_entry(pi, verbose) ==
    [type |-> "PrefabInstance", name |-> pi.name, source_guid |-> pi.source_guid,
     modifications_count |-> pi.modifications_count,
     source_prefab |-> pi.source_prefab,
     file_id |-> IF verbose THEN pi.file_id ELSE None]

scan_with_components_result(d, cache, providers, verbose) ==
    LET index == BlockIndex(d)
        gos == extract_gameobjects(d)
        pis == extract_prefab_instances(d, cache)
    IN [i \in 1..Len(gos) |->
           build_gameobject_output(gos[i],
               extract_components_indexed(d, index, gos[i].file_id), verbose,
               extract_metadata_indexed(d, index, gos[i].file_id, providers))]
       \o [i \in 1..Len(pis) |-> prefab_entry(pis[i], verbose)]

scan_metadata_result(d) ==
    LET index == BlockIndex(d)
        gos == extract_gameobjects(d)
    IN [i \in 1..Len(gos) |->
           [name |-> gos[i].name, file_id |-> gos[i].file_id, active |-> gos[i].active,
            tag |-> metadata_of(index_get_by_class_and_id(d, index, 1, gos[i].file_id),
                                [parent_id |-> None, children |-> <<>>]).tag,
            layer |-> metadata_of(index_get_by_class_and_id(d, index, 1, gos[i].file_id),
                                  [parent_id |-> None, children |-> <<>>]).layer]]

scan_scene_metadata ==
    /\ call' = [op |-> "scan_scene_metadata"]
    /\ res' = IF file_state = "ok" THEN scan_metadata_result(doc) ELSE <<>>
    /\ extracted' = <<>>
    /\ UNCHANGED <<fsVars, scannerVars, scanned>>

(* the part every query shares: a missing or unreadable document leaves the
   scanner untouched, otherwise ensure_guid_resolver runs first *)
Query(c, failure, result) ==
    /\ call' = c
    /\ IF file_state = "ok"
       THEN /\ project_root' = ensured_root
            /\ guid_cache' = ensured_cache
            /\ scanned' = ensured_scanned
            /\ res' = result
       ELSE /\ res' = failure
            /\ UNCHANGED <<guid_cache, project_root, scanned>>
    /\ UNCHANGED <<fsVars, hierarchy_providers, script_containers, config_fields>>

scan_scene_with_components(verbose) ==
    /\ Query([op |-> "scan_scene_with_components", verbose |-> verbose], <<>>,
             scan_with_components_result(doc, ensured_cache, hierarchy_providers, verbose))
    /\ extracted' = IF file_state = "ok" THEN file_ids(extract_gameobjects(doc)) ELSE <<>>

find_by_name(pattern, fuzzy) ==
    /\ Query([op |-> "find_by_name", pattern |-> pattern, fuzzy |-> fuzzy],
             <<>>, find_matches(doc, ensured_cache, pattern, fuzzy))
    /\ extracted' = <<>>

(* options.identifier = None *)
NoIdentifier == <<"None">>

InspectOptions(identifier, verbose, include_properties) ==
    [op |-> "inspect", identifier |-> identifier, verbose |-> verbose,
     include_properties |-> include_properties]

inspect(identifier, verbose, include_properties) ==
    /\ IF file_state = "ok" /\ identifier = NoIdentifier
       THEN /\ call' = InspectOptions(identifier, verbose, include_properties)
            /\ res' = NoResult
            /\ UNCHANGED <<fsVars, scannerVars, scanned>>
       ELSE Query(InspectOptions(identifier, verbose, include_properties),
                  NoResult,
                  inspect_result(doc, ensured_cache, hierarchy_providers,
                                 identifier, verbose, include_properties))
    /\ extracted' = IF file_state = "ok" /\ res'.kind = "detail"
                    THEN <<res'.file_id>> ELSE <<>>

inspect_all ==
    /\ Query([op |-> "inspect_all"],
             [count |-> 0, gameobjects |-> <<>>, prefab_instances |-> <<>>],
             inspect_all_result(doc, ensured_cache, hierarchy_providers))
    /\ extracted' = file_ids(res'.gameobjects)

inspect_all_paginated(o) ==
    /\ Query([op |-> "inspect_all_paginated", options |-> o],
             paginated_failure(o, IF file_state = "missing" THEN "File not found"
                                  ELSE "Cannot read file"),
             inspect_all_paginated_result(doc, ensured_cache, hierarchy_providers, o))
    /\ extracted' = file_ids(res'.gameobjects)

(* a paging walk: the caller's first call, and each further call with the
   next_cursor of the call before and the same options otherwise; seen and
   seen_prefabs are what the earlier calls of the walk returned *)
paged_call(o, walk) ==
    /\ Query([op |-> "inspect_all_paginated", options |-> o, walk |-> walk],
             paginated_failure(o, IF file_state = "missing" THEN "File not found"
                                  ELSE "Cannot read file"),
             inspect_all_paginated_result(doc, ensured_cache, hierarchy_providers, o))
    /\ extracted' = file_ids(res'.gameobjects)

walk_first ==
    /\ call.op = "new"
    /\ paged_call(args.options,
                  [start |-> effective_cursor(args.options.cursor), calls |-> 1,
                   seen |-> <<>>, seen_prefabs |-> <<>>])

walk_next ==
    /\ call.op = "inspect_all_paginated"
    /\ res.truncated
    /\ call.walk.calls < MaxWalkCalls
    /\ paged_call([call.options EXCEPT !.cursor = res.next_cursor],
                  [start |-> call.walk.start, calls |-> call.walk.calls + 1,
                   seen |-> call.walk.seen \o file_ids(res.gameobjects),
                   seen_prefabs |-> call.walk.seen_prefabs
                                       \o file_ids(res.prefab_instances)])

(* the file argument of the queries that follow: another path, with its own
   content, readability and ancestor directories *)
select_file(d, state, root) ==
    /\ doc' = d
    /\ file_state' = state
    /\ doc_root' = root
    /\ call' = [op |-> "select_file"]
    /\ res' = <<>>
    /\ extracted' = <<>>
    /\ UNCHANGED <<fs_meta, args, scannerVars, scanned>>

PaginationOptions(cursor, page_size, max_depth, filter_component) ==
    [cursor |-> cursor, page_size |-> page_size, max_depth |-> max_depth,
     filter_component |-> filter_component]

(***************************************************************************)
(* Documents and arguments                                                 *)
(***************************************************************************)
MaxBlocks == 3
MaxObjs == 3
WideN == 1001
DeepN == 53

GoBlock(id, name, comps) ==
    Block(1, id, FALSE,
          <<TypeLine("GameObject")>>
          \o [i \in 1..Len(comps) |-> CompLine(comps[i])]
          \o <<NameLine(name), ActiveLine(1)>>)

TransformBlock(id, father) ==
    Block(4, id, FALSE, <<TypeLine("Transform"), FatherLine(father)>>)

CameraBlock(id) == Block(20, id, FALSE, <<TypeLine("Camera")>>)

(* the blocks a document of the listing family is made of *)
Shapes == {"go_a", "go_Ab", "go_stripped", "go_no_name",
           "prefab_a", "prefab_stripped", "behaviour"}

(* one entry of an override list *)
Entry(target, path, value) ==
    <<TargetLine(target), PropertyPathLine(path), ValueLine(value), ObjRefLine>>

PrefabBlock(id, entries) ==
    Block(1001, id, FALSE,
          <<TypeLine("PrefabInstance")>> \o entries \o <<SourcePrefabLine("g1")>>)

ShapeBlock(shape, id) ==
    CASE shape = "prefab_suffix" ->
             PrefabBlock(id, Entry(7, "m_NameSuffix", <<"x">>)
                             \o Entry(7, "m_Name", <<"b">>))
      [] shape = "prefab_suffix_only" ->
             PrefabBlock(id, Entry(7, "m_NameSuffix", <<"x">>))
      [] shape = "prefab_layer" ->
             PrefabBlock(id, Entry(7, "m_Layer", <<"5">>) \o Entry(8, "m_Layer", <<"6">>))
      [] shape = "prefab_three" ->
             PrefabBlock(id, Entry(7, "m_Layer", <<"5">>) \o Entry(8, "m_Name", <<"c">>)
                             \o Entry(7, "m_Name", <<"d">>))
      [] shape = "prefab_bare" ->
             PrefabBlock(id, <<TargetLine(7)>> \o Entry(8, "m_Layer", <<"6">>))
      [] shape = "prefab_no_value" ->
             PrefabBlock(id, <<TargetLine(7), PropertyPathLine("m_Layer")>>
                             \o Entry(8, "m_Name", <<"c">>))
      [] shape = "prefab_no_path" ->
             PrefabBlock(id, <<TargetLine(7), ValueLine(<<"5">>)>>
                             \o Entry(7, "m_Layer", <<"6">>))
      [] shape = "prefab_bare_last" ->
             PrefabBlock(id, Entry(7, "m_Layer", <<"5">>) \o <<TargetLine(8)>>)
      [] shape = "go_a" -> GoBlock(id, <<"a">>, <<>>)
      [] shape = "go_Ab" -> GoBlock(id, <<"A", "b">>, <<>>)
      [] shape = "go_stripped" -> Block(1, id, TRUE, <<TypeLine("GameObject")>>)
      [] shape = "go_no_name" ->
             Block(1, id, FALSE, <<TypeLine("GameObject"), ActiveLine(1)>>)
      [] shape = "prefab_a" ->
             Block(1001, id, FALSE,
                   <<TypeLine("PrefabInstance"), TargetLine(7),
                     PropertyPathLine("m_Name"), ValueLine(<<"a">>),
                     SourcePrefabLine("g1")>>)
      [] shape = "prefab_stripped" ->
             Block(1001, id, TRUE, <<TypeLine("PrefabInstance")>>)
      [] shape = "behaviour" ->
             Block(114, id, FALSE, <<TypeLine("MonoBehaviour"), NameLine(<<"b">>)>>)

ShapeSeqs == UNION {[1..n -> Shapes] : n \in 1..MaxBlocks}

ListDoc(shapes) == [i \in 1..Len(shapes) |-> ShapeBlock(shapes[i], i)]

ListDocs == {ListDoc(sh) : sh \in ShapeSeqs}

(* hierarchy family: object k is a container (10k), its Transform (10k+4)
   and, when cam[k], a Camera (10k+2); parent[k] is the object whose
   Transform is the father, 0 for a root *)
GoId(k) == 10 * k
TransformId(k) == IF k = 0 THEN 0 ELSE 10 * k + 4
CameraId(k) == 10 * k + 2

ObjBlocks(k, parent, cam) ==
    <<GoBlock(GoId(k), <<"a">>,
              IF cam THEN <<TransformId(k), CameraId(k)>> ELSE <<TransformId(k)>>),
      TransformBlock(TransformId(k), TransformId(parent))>>
    \o (IF cam THEN <<CameraBlock(CameraId(k))>> ELSE <<>>)

RECURSIVE TreeBlocks(_, _, _)
TreeBlocks(parent, cam, k) ==
    IF k > Len(parent) THEN <<>>
    ELSE ObjBlocks(k, parent[k], cam[k]) \o TreeBlocks(parent, cam, k + 1)

CamChoices(n) == {[k \in 1..n |-> k % 2 = 1]}

TreeDocs ==
    UNION {{TreeBlocks(parent, cam, 1) :
               parent \in [1..n -> 0..n], cam \in CamChoices(n)} : n \in 1..MaxObjs}

(* n containers without components / a chain of n containers, each the
   child of the one before *)
WideDoc(n) == [i \in 1..n |-> GoBlock(i, <<"a">>, <<>>)]

ChainDoc(n) ==
    [i \in 1..(2 * n) |->
        IF i % 2 = 1 THEN GoBlock(GoId((i + 1) \div 2), <<"a">>, <<TransformId((i + 1) \div 2)>>)
        ELSE TransformBlock(TransformId(i \div 2), TransformId(i \div 2 - 1))]

(* name search family: up to MaxNamed named objects, each a container or a
   prefab instance renamed by a modification *)
MaxNamed == 2

FindNames == {<<"a">>, <<"A">>, <<"a", "b">>, <<"b", "a">>,
              <<"a", ".", "b">>, <<"a", "x", "b">>}

NamedBlock(kind, name, id) ==
    IF kind = "GameObject" THEN GoBlock(id, name, <<>>)
    ELSE Block(1001, id, FALSE,
               <<TypeLine("PrefabInstance"), TargetLine(7),
                 PropertyPathLine("m_Name"), ValueLine(name)>>)

NamedSeqs(kinds, names, lens) ==
    UNION {[1..n -> kinds \X names] : n \in lens}

NamedDoc(objs) == [i \in 1..Len(objs) |-> NamedBlock(objs[i][1], objs[i][2], i)]

FindDocs ==
    {NamedDoc(objs) :
        objs \in NamedSeqs({"GameObject", "PrefabInstance"}, FindNames, 1..MaxNamed)}

CamNames == {<<"c", "a", "m">>, <<"C", "a", "m", "e", "r", "a">>,
             <<"M", "a", "i", "n", "C", "a", "m", "e", "r", "a">>}

CamDocs ==
    {NamedDoc(objs) :
        objs \in {o \in NamedSeqs({"GameObject"}, CamNames, 2..3) :
                     \A i, j \in 1..Len(o) : o[i] = o[j] => i = j}}

FindPatterns == {<<>>, <<"a">>, <<"b">>, <<"A", "B">>, <<"*">>, <<"a", "*">>,
                 <<"?", "a">>, <<"a", ".", "*">>, <<"a", "?", "b">>}

CamPatterns == {<<"c", "a", "m">>, <<"C", "A", "M">>, <<"c", "*">>}

LargeDocs == {WideDoc(DefaultPageSize + 1), WideDoc(WideN), ChainDoc(DeepN)}

DefaultArgs ==
    [pattern |-> <<"a">>, fuzzy |-> TRUE, identifier |-> <<"a">>, verbose |-> TRUE,
     options |-> PaginationOptions(None, None, None, NoFilter),
     class_id |-> 20, path |-> "projA", include_properties |-> FALSE]

OptionSet(cursors, page_sizes, max_depths, filters) ==
    {PaginationOptions(c, ps, md, f) :
        c \in cursors, ps \in page_sizes, md \in max_depths, f \in filters}

ListArgs ==
    {[DefaultArgs EXCEPT !.pattern = p, !.fuzzy = f] :
        p \in {<<"a">>, <<"a", "*">>}, f \in BOOLEAN}
    \cup {[DefaultArgs EXCEPT !.identifier = i, !.pattern = <<"b">>] :
        i \in {<<"1">>, <<"A", "b">>, <<>>}}
    \cup {[DefaultArgs EXCEPT !.options = o, !.pattern = <<>>] :
        o \in OptionSet({1}, {None, 1}, {None}, {NoFilter})}

TreeArgs ==
    {[DefaultArgs EXCEPT !.options = o] :
        o \in OptionSet({None, 1, 2}, {None, 0, 1, 2}, {None, 0, 1},
                        {NoFilter, "Camera"})}

LargeArgs ==
    {[DefaultArgs EXCEPT !.options = o] :
        o \in OptionSet({None, DefaultPageSize, MaxPageSize},
                        {None, MaxPageSize, MaxPageSize + 1, 2 * MaxPageSize},
                        {None, MaxMaxDepth - 1, MaxMaxDepth, MaxMaxDepth + 10},
                        {NoFilter})}

NameArgs(patterns) ==
    {[DefaultArgs EXCEPT !.pattern = p, !.identifier = p, !.fuzzy = f, !.verbose = f] :
        p \in patterns, f \in BOOLEAN}

FsInit ==
    /\ file_state = "ok"
    /\ doc_root = <<"projA">>
    /\ fs_meta = ("projA" :> <<Meta("g1", <<"A", "/", "P", ".", "p">>)>>)

ScannerInit ==
    /\ guid_cache = <<>>
    /\ project_root = <<>>
    /\ hierarchy_providers = {4, 224}
    /\ script_containers = {114}
    /\ config_fields = [gameobject_class_id |-> 1, parent_field |-> "m_Father",
                        children_field |-> "m_Children", script_field |-> "m_Script"]
    /\ call = [op |-> "new"]
    /\ res = <<>>
    /\ extracted = <<>>
    /\ scanned = <<>>

(***************************************************************************)
(* Specifications                                                          *)
(***************************************************************************)
Init ==
    /\ doc \in ListDocs
    /\ args \in ListArgs
    /\ FsInit
    /\ ScannerInit

Next ==
    \/ add_hierarchy_provider(args.class_id)
    \/ set_project_root(args.path)
    \/ scan_scene_minimal
    \/ find_by_name(args.pattern, args.fuzzy)
    \/ inspect(args.identifier, args.verbose, args.include_properties)
    \/ inspect_all
    \/ inspect_all_paginated(args.options)

Spec == Init /\ [][Next]_vars

(* paging over hierarchies and over large documents *)
InitPage ==
    /\ \/ doc \in TreeDocs /\ args \in TreeArgs
       \/ doc \in LargeDocs /\ args \in LargeArgs
    /\ FsInit
    /\ ScannerInit

NextPage ==
    \/ inspect_all_paginated(args.options)

SpecPage == InitPage /\ [][NextPage]_vars

(* a session over several files and roots: projA holds two sidecar files
   declaring g1, projB declares g1 for another asset *)
SessionMeta ==
    ("projA" :> <<Meta("g1", <<"A", "/", "P", ".", "p">>),
                  Meta("g1", <<"A", "/", "Q", ".", "p">>),
                  Meta("g2", <<"A", "/", "R", ".", "c", "s">>)>>)
    @@ ("projB" :> <<Meta("g1", <<"B", "/", "P", ".", "p">>)>>)

Roots == {"projA", "projB", "nowhere"}

DocRoots == {<<>>, <<"projA">>, <<"projB">>}

FileStates == {"ok", "missing", "unreadable"}

SessionDocs == {ListDoc(<<"go_a", "prefab_a">>)}

SessionOptions == PaginationOptions(1, 1, None, NoFilter)

InitSession ==
    /\ doc \in SessionDocs
    /\ file_state \in FileStates
    /\ doc_root \in DocRoots
    /\ fs_meta = SessionMeta
    /\ args = [DefaultArgs EXCEPT !.options = SessionOptions]
    /\ ScannerInit

NextSession ==
    \/ \E d \in SessionDocs, state \in FileStates, root \in DocRoots :
          select_file(d, state, root)
    \/ \E path \in Roots : set_project_root(path)
    \/ add_hierarchy_provider(args.class_id)
    \/ add_script_container(args.class_id)
    \/ scan_scene_minimal
    \/ scan_scene_metadata
    \/ scan_scene_with_components(args.verbose)
    \/ find_by_name(args.pattern, args.fuzzy)
    \/ \E identifier \in {<<"a">>, NoIdentifier} :
          inspect(identifier, args.verbose, args.include_properties)
    \/ inspect_all
    \/ inspect_all_paginated(args.options)

SpecSession == InitSession /\ [][NextSession]_vars

(* ComponentConfig and ComponentConfig::default *)
ComponentConfig(hp, sc, pf, cf, sf) ==
    [hierarchy_providers |-> hp, script_containers |-> sc, gameobject_class_id |-> 1,
     parent_field |-> pf, children_field |-> cf, script_field |-> sf]

DefaultConfig == ComponentConfig({4, 224}, {114}, "m_Father", "m_Children", "m_Script")

(* hierarchy of one container: block 1 is the container, block 2 a
   Transform, block 3 a RectTransform, block 4 a MonoBehaviour *)
HierFathers ==
    {<<>>, <<FatherLine(0)>>, <<FatherLine(9)>>, <<RefFieldLine("m_Parent", 9)>>,
     <<RefFieldLine("m_Parent", 9), FatherLine(8)>>}

HierChildren ==
    {<<>>, <<ChildrenLine(1)>>,
     <<ChildrenLine(0), ChildLine(5), ChildLine(0), ChildLine(6)>>}

HierTails == {<<>>, <<ListLine("m_Tail")>>}

HierRefs == {<<2>>, <<2, 3>>, <<3, 2>>, <<4, 2>>, <<4>>}

HierDoc(refs, children, father, tail) ==
    <<Block(1, 1, FALSE,
            <<TypeLine("GameObject")>> \o [i \in 1..Len(refs) |-> CompLine(refs[i])]
                \o <<NameLine(<<"a">>), ActiveLine(1)>>),
      Block(4, 2, FALSE, <<TypeLine("Transform")>> \o children \o father \o tail),
      Block(224, 3, FALSE,
            <<TypeLine("RectTransform"), ChildrenLine(1), FatherLine(7)>>),
      Block(114, 4, FALSE, <<TypeLine("MonoBehaviour")>>)>>

HierDocs ==
    {HierDoc(r, c, f, t) :
        r \in HierRefs, c \in HierChildren, f \in HierFathers, t \in HierTails}

HierConfigs ==
    {[DefaultConfig EXCEPT !.hierarchy_providers = hp, !.parent_field = pf] :
        hp \in {{4, 224}, {4}}, pf \in {"m_Father", "m_Parent"}}

InitHier ==
    /\ doc \in HierDocs
    /\ args \in [config : HierConfigs, file_id : {1}]
    /\ FsInit
    /\ ScannerInit

(* gameobject::extract_metadata_indexed(&BlockIndex::new(content), file_id, &config) *)
call_extract_metadata_indexed ==
    /\ call' = [op |-> "extract_metadata_indexed", file_id |-> args.file_id,
                config |-> args.config]
    /\ res' = extract_metadata_indexed(doc, BlockIndex(doc), args.file_id,
                                       args.config.hierarchy_providers)
    /\ UNCHANGED <<fsVars, scannerVars, extracted, scanned>>

NextHier == call_extract_metadata_indexed

SpecHier == InitHier /\ [][NextHier]_vars

(* the depth walk of one hierarchy node, one loop iteration per step; the
   parent map is any map over three nodes: parents may be absent from the
   map (9), zero, or form a cycle *)
MaxWalkDepth == 3

WalkNodes == {1, 2, 3}

ParentMaps ==
    UNION {[D -> {0, 1, 2, 3, 9}] : D \in SUBSET WalkNodes}

InitWalk ==
    /\ doc = <<>>
    /\ args \in [parent_map : ParentMaps, tid : WalkNodes \cup {9},
                  max_depth : 0..MaxWalkDepth]
    /\ FsInit
    /\ ScannerInit

(* as depth_exceeded, one link later *)
depth_exceeded_late(depth, max_depth) == depth > max_depth + 1

(* if depth > max_depth { break; } *)
depth_exceeded(depth, max_depth) == depth > max_depth

(* let mut depth = 0u32; let mut current = tid.to_string(); *)
compute_depth_enter ==
    /\ call.op = "new"
    /\ call' = [op |-> "compute_depth", tid |-> args.tid, max_depth |-> args.max_depth]
    /\ res' = [depth |-> 0, current |-> args.tid, lookups |-> 0, done |-> FALSE]
    /\ UNCHANGED <<fsVars, scannerVars, extracted, scanned>>

(* one iteration of the loop: parent_map.get(&current) and its match arms *)
compute_depth_loop ==
    /\ call.op = "compute_depth" /\ ~res.done
    /\ res' = IF res.current \in DOMAIN args.parent_map
                  /\ args.parent_map[res.current] # 0
               THEN IF depth_exceeded(res.depth + 1, call.max_depth)
                    THEN [res EXCEPT !.depth = @ + 1, !.lookups = @ + 1, !.done = TRUE]
                    ELSE [res EXCEPT !.depth = @ + 1, !.lookups = @ + 1,
                                     !.current = args.parent_map[res.current]]
               ELSE [res EXCEPT !.lookups = @ + 1, !.done = TRUE]
    /\ UNCHANGED <<fsVars, scannerVars, call, extracted, scanned>>

NextWalk == compute_depth_enter \/ compute_depth_loop

(* the closure runs to its end once called: the loop is sequential code *)
SpecWalk == InitWalk /\ [][NextWalk]_vars /\ WF_vars(NextWalk)

(* walker::build_guid_cache: the sidecar files of a project are read by
   parallel workers, one closure call per file, in any order *)
MaxMetaFiles == 3

NoGuidLine == "none"

(* the sidecar files WalkDir yields, in its order: the identifier each
   declares (none when the file is unreadable or declares none) *)
MetaFileLists ==
    UNION {[1..n -> {"g1", "g2", NoGuidLine}] : n \in 1..MaxMetaFiles}

(* the asset path of the i-th sidecar file, relative to the project root *)
rel_path(i) == <<"A", "/", "f", i>>

(* the item of one file: not produced yet, None, Some((guid, rel)) *)
Item(state, guid, path) == [state |-> state, guid |-> guid, path |-> path]
Pending == Item("pending", "", <<>>)
Nothing == Item("none", "", <<>>)

InitBuild ==
    /\ doc = <<>>
    /\ args \in [meta_files : MetaFileLists]
    /\ FsInit
    /\ ScannerInit

(* let meta_files = ...collect(); nothing is read yet *)
walker_build_enter ==
    /\ call.op = "new"
    /\ call' = [op |-> "build_guid_cache", phase |-> "parallel"]
    /\ res' = [slots |-> [i \in 1..Len(args.meta_files) |-> Pending],
               pairs |-> <<>>, next |-> 1, map |-> <<>>]
    /\ UNCHANGED <<fsVars, scannerVars, extracted, scanned>>

(* the closure of filter_map for one file: Some((guid, rel)) or None *)
closure_result(meta_files, i) ==
    IF meta_files[i] = NoGuidLine THEN Nothing
    ELSE Item("some", meta_files[i], rel_path(i))

(* a worker that writes its pair into the shared map itself *)
worker_inserts(i) ==
    /\ call.op = "build_guid_cache" /\ call.phase = "parallel"
    /\ res.slots[i] = Pending
    /\ res' = [res EXCEPT !.slots[i] = closure_result(args.meta_files, i),
                          !.map = IF args.meta_files[i] = NoGuidLine THEN @
                                  ELSE (args.meta_files[i] :> rel_path(i)) @@ @]
    /\ UNCHANGED <<fsVars, scannerVars, call, extracted, scanned>>

(* a worker runs the closure on file i; it writes nothing but its own item *)
worker(i) ==
    /\ call.op = "build_guid_cache" /\ call.phase = "parallel"
    /\ res.slots[i] = Pending
    /\ res' = [res EXCEPT !.slots[i] = closure_result(args.meta_files, i)]
    /\ UNCHANGED <<fsVars, scannerVars, call, extracted, scanned>>

(* collect() into a Vec: the items in the order of meta_files *)
collected(slots) ==
    SelectSeq(slots, LAMBDA x : x # Nothing)

collect ==
    /\ call.op = "build_guid_cache" /\ call.phase = "parallel"
    /\ \A i \in 1..Len(res.slots) : res.slots[i] # Pending
    /\ call' = [call EXCEPT !.phase = "insert"]
    /\ res' = [res EXCEPT !.pairs = collected(res.slots)]
    /\ UNCHANGED <<fsVars, scannerVars, extracted, scanned>>

(* for (guid, path) in pairs { map.insert(guid, path) }, one pair per step *)
map_insert ==
    /\ call.op = "build_guid_cache" /\ call.phase = "insert"
    /\ IF res.next <= Len(res.pairs)
       THEN /\ res' = [res EXCEPT
                          !.map = (res.pairs[res.next].guid :> res.pairs[res.next].path)
                                      @@ @,
                          !.next = @ + 1]
            /\ call' = call
       ELSE /\ call' = [call EXCEPT !.phase = "returned"]
            /\ res' = res
    /\ UNCHANGED <<fsVars, scannerVars, extracted, scanned>>

NextBuild ==
    \/ walker_build_enter
    \/ \E i \in 1..MaxMetaFiles : i <= Len(args.meta_files) /\ worker(i)
    \/ collect
    \/ map_insert

SpecBuild == InitBuild /\ [][NextBuild]_vars

(* paging walks over small acyclic hierarchies followed by prefab instances *)
PagingTails ==
    {<<>>, <<ShapeBlock("prefab_a", 91)>>,
     <<ShapeBlock("prefab_layer", 91), ShapeBlock("prefab_a", 92)>>}

(* parents that come all before or all after their children: no cycles *)
ForestParents(n) ==
    {p \in [1..n -> 0..n] :
        \/ \A k \in 1..n : p[k] < k
        \/ \A k \in 1..n : p[k] = 0 \/ p[k] > k}

ForestDocs ==
    UNION {{TreeBlocks(parent, cam, 1) :
               parent \in ForestParents(n), cam \in CamChoices(n)} : n \in 1..MaxObjs}

PagingDocs == {t \o tail : t \in ForestDocs, tail \in PagingTails}

PagingArgs ==
    {[DefaultArgs EXCEPT !.options = o] :
        o \in OptionSet({None, 0, 1}, {None, 0, 1, 2}, {None, 0, 1},
                        {NoFilter, "Camera"})}

InitPaging ==
    /\ doc \in PagingDocs
    /\ args \in PagingArgs
    /\ FsInit
    /\ ScannerInit

NextPaging == walk_first \/ walk_next

SpecPaging == InitPaging /\ [][NextPaging]_vars

(* the object config under additions and removals *)
ConfigClassIds == {1, 4, 114, 224, 999}

InitConfig ==
    /\ doc = <<>>
    /\ args = DefaultArgs
    /\ FsInit
    /\ ScannerInit

NextConfig ==
    \E class_id \in ConfigClassIds :
        \/ add_hierarchy_provider(class_id)
        \/ add_script_container(class_id)
        \/ remove_hierarchy_provider(class_id)
        \/ remove_script_container(class_id)

SpecConfig == InitConfig /\ [][NextConfig]_vars

(* components of one container: block 1 is the container, the two blocks
   after it have the identifiers 2 and 20 in either order *)
ScriptRef(g) == PropLine("m_Script", <<"{", "guid:", g, "}">>)

CompShape(shape) ==
    CASE shape = "script_g1" -> <<ScriptRef("g1"), PropLine("m_Enabled", <<"1">>)>>
      [] shape = "script_g2" -> <<ScriptRef("g2"), PropLine("m_Enabled", <<"1">>)>>
      [] shape = "script_null" -> <<PropLine("m_Script", <<"{", "fileID: 0", "}">>)>>
      [] shape = "three_lines" ->
             <<PropLine("m_First", <<"1">>), PropLine("m_Data", <<"{", "a:", "[">>),
               TextLine(<<"1", "]">>), PropLine("b", <<"2", "}">>),
               PropLine("m_After", <<"3">>)>>
      [] shape = "unterminated" ->
             <<PropLine("m_First", <<"1">>), PropLine("m_Open", <<"{", "x">>),
               PropLine("y", <<"2">>)>>
      [] shape = "brackets" ->
             <<PropLine("m_Data", <<"{", "}", "[">>), TextLine(<<"]">>),
               PropLine("m_After", <<"3">>)>>
      [] shape = "metadata" ->
             <<PropLine("m_ObjectHideFlags", <<"0">>), PropLine("m_Enabled", <<"1">>),
               PropLine("m_Enabled", <<"0">>)>>

CompShapes == {"script_g1", "script_g2", "script_null", "three_lines", "unterminated",
               "brackets", "metadata"}

CompBlock(cls, id, shape) ==
    Block(cls, id, FALSE,
          <<TypeLine(IF cls = 114 THEN "MonoBehaviour" ELSE "Transform")>>
              \o CompShape(shape))

CompDoc(refs, cls, ids, shapes) ==
    <<Block(1, 1, FALSE,
            <<TypeLine("GameObject")>> \o [i \in 1..Len(refs) |-> CompLine(refs[i])]
                \o <<NameLine(<<"a">>), ActiveLine(1)>>),
      CompBlock(cls[1], ids[1], shapes[1]),
      CompBlock(cls[2], ids[2], shapes[2])>>

CompDocs ==
    {CompDoc(r, c, i, sh) :
        r \in {<<2>>, <<20>>, <<2, 20>>, <<20, 2>>},
        c \in {114, 4} \X {114, 4},
        i \in {<<2, 20>>, <<20, 2>>},
        sh \in CompShapes \X CompShapes}

CompCaches ==
    {<<>>, ("g1" :> <<"A", "/", "S", ".", "d", "/", "P", ".", "c", "s">>)}

InitComp ==
    /\ doc \in CompDocs
    /\ args = [config |-> DefaultConfig, file_id |-> 1]
    /\ FsInit
    /\ guid_cache \in CompCaches
    /\ project_root = <<>>
    /\ hierarchy_providers = {4, 224}
    /\ script_containers = {114}
    /\ config_fields = [gameobject_class_id |-> 1, parent_field |-> "m_Father",
                        children_field |-> "m_Children", script_field |-> "m_Script"]
    /\ call = [op |-> "new"]
    /\ res = <<>>
    /\ extracted = <<>>
    /\ scanned = <<>>

(* component::extract_components_with_config(content, file_id, &guid_cache, &config) *)
call_extract_components_with_config ==
    /\ call' = [op |-> "extract_components_with_config", file_id |-> args.file_id,
                config |-> args.config]
    /\ res' = extract_components_with_config(doc, args.file_id, guid_cache, args.config)
    /\ UNCHANGED <<fsVars, scannerVars, extracted, scanned>>

NextComp == call_extract_components_with_config

SpecComp == InitComp /\ [][NextComp]_vars

(* inspect by identifier: documents of one or two blocks whose identifiers
   are 1 and 12 in either order *)
InspectShapes == {"go_a", "go_stripped", "behaviour", "prefab_a", "prefab_stripped",
                  "prefab_suffix", "prefab_suffix_only", "prefab_layer", "prefab_three"}

InspectIds == {1, 12}

InspectDocs ==
    {<<ShapeBlock(sh, id)>> : sh \in InspectShapes, id \in InspectIds}
    \cup {<<ShapeBlock(sh[1], id[1]), ShapeBlock(sh[2], id[2])>> :
             sh \in InspectShapes \X InspectShapes,
             id \in {i \in InspectIds \X InspectIds : i[1] # i[2]}}

InspectArgs ==
    {[DefaultArgs EXCEPT !.identifier = i, !.include_properties = p] :
        i \in {<<"1">>, <<"1", "2">>, <<"2">>}, p \in BOOLEAN}

InitInspect ==
    /\ doc \in InspectDocs
    /\ args \in InspectArgs
    /\ FsInit
    /\ ScannerInit

NextInspect ==
    \/ inspect(args.identifier, args.verbose, args.include_properties)
    \/ inspect_all

SpecInspect == InitInspect /\ [][NextInspect]_vars

(* override lists with incomplete entries: an entry that is only its target
   line, an entry without value line, an entry without property path *)
ModShapes == {"go_a", "prefab_layer", "prefab_three", "prefab_bare",
              "prefab_no_value", "prefab_no_path", "prefab_bare_last"}

ModDocs ==
    {<<ShapeBlock(sh, id)>> : sh \in ModShapes, id \in InspectIds}
    \cup {<<ShapeBlock(sh[1], id[1]), ShapeBlock(sh[2], id[2])>> :
             sh \in ModShapes \X ModShapes,
             id \in {i \in InspectIds \X InspectIds : i[1] # i[2]}}

ModArgs ==
    {[DefaultArgs EXCEPT !.identifier = i, !.include_properties = p] :
        i \in {<<"1">>, <<"1", "2">>}, p \in BOOLEAN}

InitMods ==
    /\ doc \in ModDocs
    /\ args \in ModArgs
    /\ FsInit
    /\ ScannerInit

NextMods ==
    \/ inspect(args.identifier, args.verbose, args.include_properties)
    \/ inspect_all

SpecMods == InitMods /\ [][NextMods]_vars

(* name search *)
InitFind ==
    /\ \/ doc \in FindDocs /\ args \in NameArgs(FindPatterns)
       \/ doc \in CamDocs /\ args \in NameArgs(CamPatterns)
    /\ FsInit
    /\ ScannerInit

NextFind ==
    \/ find_by_name(args.pattern, args.fuzzy)
    \/ inspect(args.identifier, args.verbose, args.include_properties)

SpecFind == InitFind /\ [][NextFind]_vars

(***************************************************************************)
(* Properties                                                              *)
(***************************************************************************)
IsContainer(blk) == blk.cls = 1 /\ ~blk.stripped

(* a container block as the serializer writes it: the type line opens the
   body, and a name line is followed by an active line inside the block *)
WellFormedContainer(blk) ==
    /\ IsContainer(blk)
    /\ Len(blk.body) >= 1
    /\ blk.body[1] = TypeLine("GameObject")
    /\ \E i, j \in 2..Len(blk.body) :
          i < j /\ blk.body[i].k = "m_Name" /\ blk.body[j].k = "m_IsActive"

Containers(d) == {b \in 1..Len(d) : IsContainer(d[b])}

WellFormedDoc(d) ==
    /\ \A b \in Containers(d) : WellFormedContainer(d[b])
    /\ Cardinality({d[b].id : b \in Containers(d)}) = Cardinality(Containers(d))

NameOfContainer(blk) == blk.body[FirstLine(blk.body, "m_Name", 1)].s

(* C1: on a document whose N containers are well formed, non-stripped and
   have distinct identifiers, inspect_all returns exactly N entries, one per
   container block with that block's identifier and name, and count = N;
   containers with equal names are listed separately *)
C1_InspectAllComplete ==
    (call.op = "inspect_all" /\ file_state = "ok" /\ WellFormedDoc(doc)) =>
        /\ res.count = Cardinality(Containers(doc))
        /\ Len(res.gameobjects) = Cardinality(Containers(doc))
        /\ \A b \in Containers(doc) :
              Cardinality({i \in 1..Len(res.gameobjects) :
                              /\ res.gameobjects[i].file_id = doc[b].id
                              /\ res.gameobjects[i].name = NameOfContainer(doc[b])}) = 1

C1_Witness ==
    /\ call.op = "inspect_all" /\ file_state = "ok" /\ WellFormedDoc(doc)
    /\ \E b, c \in Containers(doc) :
          b # c /\ NameOfContainer(doc[b]) = NameOfContainer(doc[c])
    /\ res.count = Cardinality(Containers(doc))
    /\ \E b \in 1..Len(doc) : doc[b].stripped

(***************************************************************************)
(* The hierarchy as the document states it                                 *)
(***************************************************************************)
(* object identifier -> position of its block *)
RECURSIVE PosRange(_, _, _)
PosRange(d, lo, hi) ==
    IF lo > hi THEN <<>>
    ELSE IF lo = hi THEN (d[lo].id :> lo)
    ELSE LET mid == (lo + hi) \div 2
         IN PosRange(d, mid + 1, hi) @@ PosRange(d, lo, mid)

Positions(d) == PosRange(d, 1, Len(d))

(* position of the block with this identifier, 0 if none *)
BlockOf(pos, id) == IF id \in DOMAIN pos THEN pos[id] ELSE 0

(* position of the block that provides the hierarchy node of container b *)
ProviderOf(d, pos, b) ==
    LET C == {i \in 1..Len(d[b].body) :
                 /\ d[b].body[i].k = "component"
                 /\ BlockOf(pos, d[b].body[i].n) # 0
                 /\ d[BlockOf(pos, d[b].body[i].n)].cls \in hierarchy_providers}
    IN IF C = {} THEN 0 ELSE BlockOf(pos, d[b].body[Min(C)].n)

FatherOf(d, t) ==
    LET i == FirstLine(d[t].body, "m_Father", 1)
    IN IF i = 0 THEN 0 ELSE d[t].body[i].n

(* n plus the number of ancestors of the node at block t; None on a cycle
   (more ancestors than the document has blocks) *)
RECURSIVE Ancestors(_, _, _, _)
Ancestors(d, pos, t, n) ==
    IF n > Len(d) THEN None
    ELSE IF FatherOf(d, t) = 0 THEN n
    ELSE IF BlockOf(pos, FatherOf(d, t)) = 0 THEN n + 1
    ELSE Ancestors(d, pos, BlockOf(pos, FatherOf(d, t)), n + 1)

HierDepth(d, pos, b) ==
    IF ProviderOf(d, pos, b) = 0 THEN 0
    ELSE Ancestors(d, pos, ProviderOf(d, pos, b), 0)

(* container position -> depth of the container in the hierarchy *)
Depths(d) ==
    LET pos == Positions(d)
    IN [b \in Containers(d) |-> HierDepth(d, pos, b)]

Acyclic(d) ==
    LET dep == Depths(d)
    IN \A b \in DOMAIN dep : dep[b] # None

MaxHierDepth(d) ==
    LET dep == Depths(d)
    IN Max({dep[b] : b \in DOMAIN dep} \cup {0})

(* container b references a component block of the named type *)
HasType(d, pos, b, type) ==
    \/ type = NoFilter
    \/ \E i \in 1..Len(d[b].body) :
          /\ d[b].body[i].k = "component"
          /\ BlockOf(pos, d[b].body[i].n) # 0
          /\ d[BlockOf(pos, d[b].body[i].n)].body[1] = TypeLine(type)

PagedCall ==
    /\ call.op = "inspect_all_paginated"
    /\ file_state = "ok"
    /\ WellFormedDoc(doc)

RequestedPageSize ==
    IF call.options.page_size = None THEN 200 ELSE call.options.page_size

RequestedMaxDepth ==
    IF call.options.max_depth = None THEN 10 ELSE call.options.max_depth

ExpectedPageSize == Min2(RequestedPageSize, 1000)
ExpectedMaxDepth == Min2(RequestedMaxDepth, 50)
ExpectedCursor == IF call.options.cursor = None THEN 0 ELSE call.options.cursor

(* what both listings say about a container *)
Listed(det) ==
    [name |-> det.name, file_id |-> det.file_id, active |-> det.active,
     tag |-> det.tag, layer |-> det.layer, components |-> det.components]

ListedSet(dets) == {Listed(dets[i]) : i \in 1..Len(dets)}

C2_Case(page_size) ==
    /\ PagedCall
    /\ ExpectedCursor = 0
    /\ call.options.filter_component = NoFilter
    /\ page_size >= Cardinality(Containers(doc))
    /\ Acyclic(doc)
    /\ RequestedMaxDepth >= MaxHierDepth(doc)

C2_SameAsInspectAll ==
    /\ ListedSet(res.gameobjects)
         = ListedSet(inspect_all_result(doc, guid_cache, hierarchy_providers).gameobjects)
    /\ Len(res.gameobjects) = Cardinality(Containers(doc))
    /\ ~res.truncated
    /\ res.next_cursor = None

(* C2 as stated: with cursor 0, no component filter, a requested page_size
   >= N and max_depth >= the true maximum depth, inspect_all_paginated
   returns the N containers of inspect_all, not truncated, no next_cursor *)
C2_AsStated == C2_Case(RequestedPageSize) => C2_SameAsInspectAll

(* C2: with cursor 0, no component filter, max_depth >= the true maximum
   depth and an effective page size min(page_size, 1000) >= N (so N <= 1000),
   inspect_all_paginated returns the same N containers as inspect_all, with
   truncated = false and no next_cursor *)
C2_PaginatedEqualsInspectAll == C2_Case(ExpectedPageSize) => C2_SameAsInspectAll

C2_Witness ==
    /\ C2_Case(ExpectedPageSize)
    /\ Cardinality(Containers(doc)) > 2
    /\ MaxHierDepth(doc) >= 2
    /\ call.options.max_depth # None
    /\ Len(res.gameobjects) = Cardinality(Containers(doc))

(***************************************************************************)
(* C3                                                                      *)
(***************************************************************************)
IdSet(s) == {s[i].file_id : i \in 1..Len(s)}

(* the identifiers the last call listed *)
ListedIds ==
    CASE call.op = "scan_scene_minimal" -> IdSet(res)
      [] call.op = "find_by_name" -> IdSet(res)
      [] call.op = "inspect_all" ->
             IdSet(res.gameobjects) \cup IdSet(res.prefab_instances)
      [] call.op = "inspect_all_paginated" ->
             IdSet(res.gameobjects) \cup IdSet(res.prefab_instances)
      [] OTHER -> {}

UniqueIds(d) == Cardinality({d[b].id : b \in 1..Len(d)}) = Len(d)

(* C3: the identifier of a block whose header carries the stripped marker is
   in no listing (scan_scene_minimal, inspect_all, inspect_all_paginated,
   find_by_name), wherever the block stands; parse_all_blocks still returns
   the block, and inspect by that identifier finds its header and answers
   with an error value instead of nothing *)
C3_StrippedExcluded ==
    (file_state = "ok" /\ UniqueIds(doc)) =>
        \A b \in 1..Len(doc) : doc[b].stripped =>
            /\ doc[b].id \notin ListedIds
            /\ \E i \in 1..Len(parse_all_blocks(doc)) :
                  /\ parse_all_blocks(doc)[i][1] = doc[b].cls
                  /\ parse_all_blocks(doc)[i][2] = doc[b].id
            /\ (/\ call.op = "inspect"
                /\ call.identifier # <<>>
                /\ all_digits(call.identifier)
                /\ IdOfDigits(call.identifier) = doc[b].id
                /\ \A c \in 1..(b - 1) : ~IsIdPrefix(doc[b].id, doc[c].id))
               => (res.kind = "error" /\ res.is_error)

C3_Witness ==
    /\ file_state = "ok"
    /\ call.op = "inspect_all_paginated"
    /\ Len(doc) = 3
    /\ IsContainer(doc[1]) /\ WellFormedContainer(doc[1])
    /\ doc[2].cls = 1 /\ doc[2].stripped
    /\ IsContainer(doc[3]) /\ WellFormedContainer(doc[3])
    /\ res.total_in_scene = 2
    /\ doc[2].id \notin ListedIds

(***************************************************************************)
(* C4 .. C7                                                                *)
(***************************************************************************)
(* the true depth of the i-th returned container *)
ReturnedDepth(pos, dep, i) == dep[pos[res.gameobjects[i].file_id]]

ReturnedDepthsExact ==
    LET pos == Positions(doc)
        dep == Depths(doc)
    IN \A i \in 1..Len(res.gameobjects) :
           ReturnedDepth(pos, dep, i) <= ExpectedMaxDepth
               => res.gameobjects[i].depth = ReturnedDepth(pos, dep, i)

ReturnedWithin(limit) ==
    LET pos == Positions(doc)
        dep == Depths(doc)
    IN \A i \in 1..Len(res.gameobjects) : ReturnedDepth(pos, dep, i) <= limit

(* the containers left by a depth limit and the component-type filter *)
Remaining(d, limited, limit, type) ==
    LET pos == Positions(d)
        dep == Depths(d)
    IN {b \in Containers(d) :
           /\ (limited => dep[b] <= limit)
           /\ HasType(d, pos, b, type)}

(* C4 as stated: depths of an acyclic chain are 0, 1, 2, ...; for any
   effective max_depth d every container deeper than d is excluded; total is
   the number of containers left by the depth and component-type filters *)
C4_AsStated ==
    (PagedCall /\ Acyclic(doc)) =>
        /\ ReturnedDepthsExact
        /\ ReturnedWithin(ExpectedMaxDepth)
        /\ res.total = Cardinality(Remaining(doc, TRUE, ExpectedMaxDepth,
                                             call.options.filter_component))

(* C4: on an acyclic hierarchy a returned container at true depth <= the
   effective max_depth d reports that depth (0, 1, 2 down a chain); for
   d < 50 every container deeper than d is excluded, while at d = 50 (the
   cap) no container is excluded by depth; total is the number of containers
   left by that depth filter and the component-type filter *)
C4_DepthFilter ==
    (PagedCall /\ Acyclic(doc)) =>
        /\ ReturnedDepthsExact
        /\ (ExpectedMaxDepth < 50 => ReturnedWithin(ExpectedMaxDepth))
        /\ res.total = Cardinality(Remaining(doc, ExpectedMaxDepth < 50,
                                             ExpectedMaxDepth,
                                             call.options.filter_component))

C4_Witness ==
    /\ PagedCall /\ Acyclic(doc)
    /\ Cardinality(Containers(doc)) = 3
    /\ MaxHierDepth(doc) = 2
    /\ call.options.max_depth = 1
    /\ call.options.filter_component = NoFilter
    /\ res.total = 2
    /\ res.total_in_scene = 3
    /\ Len(res.gameobjects) = 2
    /\ res.gameobjects[1].depth = 0
    /\ res.gameobjects[2].depth = 1

BlockPositions(d) == [b \in 1..Len(d) |-> b]

(* the post-filter list: container blocks in document order *)
PostFilter(d, limit, type) ==
    LET pos == Positions(d)
        dep == Depths(d)
    IN SelectSeq(BlockPositions(d),
                 LAMBDA b : /\ IsContainer(d[b])
                            /\ (limit < 50 => dep[b] <= limit)
                            /\ HasType(d, pos, b, type))

PageOf(d, pf, start, size) ==
    IF start >= Len(pf) THEN <<>>
    ELSE [i \in 1..(Min2(start + size, Len(pf)) - start) |-> d[pf[start + i]].id]

ExpectedPage ==
    PageOf(doc, PostFilter(doc, ExpectedMaxDepth, call.options.filter_component),
           ExpectedCursor, ExpectedPageSize)

(* C5: the page is exactly the elements at offsets
   [cursor, min(cursor + page_size, total)) of the document-ordered list left
   by the depth and component-type filters, empty when cursor >= total, and
   full component extraction ran for exactly those elements *)
C5_FilterThenSlice ==
    (PagedCall /\ Acyclic(doc)) =>
        /\ file_ids(res.gameobjects) = ExpectedPage
        /\ extracted = ExpectedPage

C5_Witness ==
    /\ PagedCall /\ Acyclic(doc)
    /\ call.options.filter_component = "Camera"
    /\ call.options.max_depth = 0
    /\ ExpectedCursor = 1
    /\ ExpectedPageSize = 1
    /\ Cardinality(Containers(doc)) = 3
    /\ Len(res.gameobjects) = 1
    /\ res.gameobjects[1].file_id = GoId(3)
    /\ extracted = <<GoId(3)>>

(* C6: truncated holds exactly when cursor + page_size < total, that is when
   containers of the post-filter list remain after the page; next_cursor is
   present exactly when truncated and is then cursor + page_size; the total
   in the document is the number of non-stripped containers whatever the
   filters *)
C6_TruncatedAndCursor ==
    PagedCall =>
        /\ res.cursor = ExpectedCursor
        /\ res.truncated <=> (res.cursor + res.page_size < res.total)
        /\ res.truncated <=>
               /\ res.cursor < res.total
               /\ res.cursor + Len(res.gameobjects) < res.total
        /\ (res.next_cursor # None) <=> res.truncated
        /\ res.truncated => res.next_cursor = res.cursor + res.page_size
        /\ res.total_in_scene = Cardinality(Containers(doc))

C6_Witness ==
    /\ PagedCall
    /\ call.options.filter_component = "Camera"
    /\ res.truncated
    /\ res.next_cursor = 1
    /\ Len(res.gameobjects) = 1
    /\ res.total = 2
    /\ res.total_in_scene = 3

(* C7: the page size echoed is 200 when none is given and
   min(requested, 1000) otherwise, and the page holds at most that many
   containers; the depth limit is 10 when none is given and
   min(requested, 50) otherwise: a reported depth is the true depth counted
   up to one past that limit, and below the cap nothing deeper is returned *)
C7_DefaultsAndCaps ==
    (call.op = "inspect_all_paginated" /\ file_state = "ok") =>
        /\ res.page_size = ExpectedPageSize
        /\ Len(res.gameobjects) <= ExpectedPageSize
        /\ (WellFormedDoc(doc) /\ Acyclic(doc)) =>
              LET pos == Positions(doc)
                  dep == Depths(doc)
              IN \A i \in 1..Len(res.gameobjects) :
                     /\ res.gameobjects[i].depth =
                           Min2(ReturnedDepth(pos, dep, i), ExpectedMaxDepth + 1)
                     /\ ExpectedMaxDepth < 50 =>
                           res.gameobjects[i].depth <= ExpectedMaxDepth

C7_Witness ==
    /\ call.op = "inspect_all_paginated" /\ file_state = "ok"
    /\ call.options.page_size # None
    /\ call.options.page_size > 1000
    /\ res.page_size = 1000
    /\ Len(res.gameobjects) = 1000
    /\ res.truncated

(***************************************************************************)
(* C8 .. C10                                                               *)
(***************************************************************************)
IsPrefab(blk) == blk.cls = 1001 /\ ~blk.stripped

(* the name a modification of the instance gives it *)
NameOfPrefab(blk) == blk.body[FirstLine(blk.body, "value", 1)].s

Named(file_id, name, result_type) ==
    [file_id |-> file_id, name |-> name, result_type |-> result_type]

NamedObjects(d) ==
    {Named(d[b].id, NameOfContainer(d[b]), "GameObject") : b \in Containers(d)}
    \cup {Named(d[b].id, NameOfPrefab(d[b]), "PrefabInstance") :
             b \in {c \in 1..Len(d) : IsPrefab(d[c])}}

Found(ms) ==
    {Named(ms[i].file_id, ms[i].name, ms[i].result_type) : i \in 1..Len(ms)}

FindCall(fuzzy) ==
    /\ call.op = "find_by_name"
    /\ file_state = "ok"
    /\ call.fuzzy = fuzzy
    /\ WellFormedDoc(doc)

ExpectedScore(name, pattern) ==
    IF to_lowercase(name) = to_lowercase(pattern) THEN 100
    ELSE IF starts_with(to_lowercase(name), to_lowercase(pattern)) THEN 85
    ELSE 70

FuzzyHits(d, pattern) ==
    {o \in NamedObjects(d) : contains(to_lowercase(o.name), to_lowercase(pattern))}

(* C8: fuzzy search with a pattern free of glob characters returns exactly
   the containers and prefab instances whose lower-cased name contains the
   lower-cased pattern, scored 100 when the lower-cased name equals the
   lower-cased pattern, 85 when it starts with it, 70 when it only contains
   it, in descending order of score *)
C8_FuzzyScoring ==
    (FindCall(TRUE) /\ ~HasGlob(call.pattern)) =>
        /\ Found(res) = FuzzyHits(doc, call.pattern)
        /\ Len(res) = Cardinality(FuzzyHits(doc, call.pattern))
        /\ \A i \in 1..Len(res) :
              res[i].match_score = Score(ExpectedScore(res[i].name, call.pattern))
        /\ \A i, j \in 1..Len(res) :
              i < j => res[i].match_score.num >= res[j].match_score.num

C8_Witness ==
    /\ FindCall(TRUE)
    /\ call.pattern = <<"c", "a", "m">>
    /\ Len(doc) = 3
    /\ NameOfContainer(doc[1]) = <<"M", "a", "i", "n", "C", "a", "m", "e", "r", "a">>
    /\ NameOfContainer(doc[2]) = <<"C", "a", "m", "e", "r", "a">>
    /\ Len(res) = 3
    /\ res[1].match_score = Score(100)
    /\ res[2].name = <<"C", "a", "m", "e", "r", "a">>
    /\ res[2].match_score = Score(85)
    /\ res[3].file_id = doc[1].id
    /\ res[3].match_score = Score(70)

(* the whole text matches the glob, letters compared without case: cut[i]
   is the end of the part of the text that pattern character i takes *)
GlobMatches(p, t) ==
    \E cut \in [0..Len(p) -> 0..Len(t)] :
        /\ cut[0] = 0
        /\ cut[Len(p)] = Len(t)
        /\ \A i \in 1..Len(p) :
              /\ cut[i - 1] <= cut[i]
              /\ \/ p[i] = "*"
                 \/ /\ cut[i] = cut[i - 1] + 1
                    /\ (p[i] = "?" \/ Lower(t[cut[i]]) = Lower(p[i]))

ExactOrGlobHits(d, pattern) ==
    {o \in NamedObjects(d) :
        IF HasGlob(pattern) THEN GlobMatches(pattern, o.name) ELSE o.name = pattern}

(* C9: with fuzzy = false a pattern without '*' and '?' returns exactly the
   objects whose name equals it; a pattern with '*' or '?' returns exactly
   the objects whose whole name matches the glob without regard to case,
   '*' for any run, '?' for one character, any other character ('.' too)
   for itself *)
C9_ExactOrGlob ==
    FindCall(FALSE) =>
        /\ Found(res) = ExactOrGlobHits(doc, call.pattern)
        /\ Len(res) = Cardinality(ExactOrGlobHits(doc, call.pattern))

C9_Witness ==
    /\ FindCall(FALSE)
    /\ call.pattern = <<"a", ".", "*">>
    /\ Len(doc) = 2
    /\ IsContainer(doc[1]) /\ IsContainer(doc[2])
    /\ NameOfContainer(doc[1]) = <<"a", "x", "b">>
    /\ NameOfContainer(doc[2]) = <<"a", ".", "b">>
    /\ Len(res) = 1
    /\ res[1].file_id = doc[2].id

NameHits(d, identifier) ==
    {o \in NamedObjects(d) :
        IF HasGlob(identifier) THEN GlobMatches(identifier, o.name)
        ELSE contains(to_lowercase(o.name), to_lowercase(identifier))}

(* C10: inspect with a non-numeric identifier that several objects match
   (equally ranked or not) returns an error value with is_error = true that
   lists the identifier of every match, never the detail of one of them *)
C10_AmbiguousNameIsError ==
    (/\ call.op = "inspect"
     /\ file_state = "ok"
     /\ WellFormedDoc(doc)
     /\ ~all_digits(call.identifier)
     /\ Cardinality(NameHits(doc, call.identifier)) > 1) =>
        /\ res.kind = "error"
        /\ res.is_error
        /\ res.error = "multiple"
        /\ Len(res.ids) = Cardinality(NameHits(doc, call.identifier))
        /\ {res.ids[i] : i \in 1..Len(res.ids)}
              = {o.file_id : o \in NameHits(doc, call.identifier)}

C10_Witness ==
    /\ call.op = "inspect"
    /\ file_state = "ok"
    /\ call.identifier = <<"a">>
    /\ Len(doc) = 2
    /\ IsContainer(doc[1]) /\ IsContainer(doc[2])
    /\ NameOfContainer(doc[1]) = <<"a">>
    /\ NameOfContainer(doc[2]) = <<"a">>
    /\ res.kind = "error"
    /\ res.ids = <<doc[1].id, doc[2].id>>

(***************************************************************************)
(* Missing documents, the identifier cache over a session                  *)
(***************************************************************************)
QueryOps == {"scan_scene_minimal", "scan_scene_metadata", "scan_scene_with_components",
             "find_by_name", "inspect", "inspect_all", "inspect_all_paginated"}

(* the queries that resolve stable identifiers *)
ResolvingOps == {"scan_scene_with_components", "find_by_name", "inspect",
                 "inspect_all", "inspect_all_paginated"}

(* the empty or zeroed result of a query, as the caller sees it *)
EmptyResult(op, r) ==
    CASE op \in {"scan_scene_minimal", "scan_scene_metadata",
                 "scan_scene_with_components"} -> r = <<>>
      [] op = "find_by_name" -> r = <<>>
      [] op = "inspect" -> r.kind = "none"
      [] op = "inspect_all" ->
             r.count = 0 /\ r.gameobjects = <<>> /\ r.prefab_instances = <<>>
      [] op = "inspect_all_paginated" ->
             /\ r.total = 0 /\ r.total_in_scene = 0
             /\ ~r.truncated /\ r.next_cursor = None
             /\ r.gameobjects = <<>> /\ r.error # ""

C12_Step ==
    (call'.op \in QueryOps /\ file_state # "ok") =>
        /\ EmptyResult(call'.op, res')
        /\ guid_cache' = guid_cache
        /\ project_root' = project_root
        /\ hierarchy_providers' = hierarchy_providers
        /\ script_containers' = script_containers

(* C12: a query on a document that does not exist or cannot be read returns
   the empty or zeroed result of its kind (the paginated one with an error
   string) and leaves the identifier cache, the project root and the object
   config as they were *)
C12_MissingDocument == [][C12_Step]_vars

C12_Witness ==
    /\ call.op = "inspect_all_paginated"
    /\ file_state = "missing"
    /\ res.error = "File not found"
    /\ res.total_in_scene = 0
    /\ project_root = <<>>
    /\ doc_root = <<"projA">>
    /\ guid_cache = <<>>

C13_Step ==
    \A g \in DOMAIN guid_cache :
        g \in DOMAIN guid_cache' /\ guid_cache'[g] = guid_cache[g]

(* C13: over every sequence of operations the identifier cache is
   append-only: an entry, once present, stays present with the same path *)
C13_AppendOnly == [][C13_Step]_vars

(* what the claim says of a query step, for the queries in ops *)
LazyOnceStep(ops) ==
    (call'.op \in ops /\ file_state = "ok") =>
        /\ (project_root = <<>> /\ doc_root # <<>>) =>
               /\ scanned' = Append(scanned, doc_root[1])
               /\ project_root' = doc_root
               /\ guid_cache' = build_guid_cache(guid_cache, doc_root[1])
        /\ project_root # <<>> =>
               /\ scanned' = scanned
               /\ guid_cache' = guid_cache
               /\ project_root' = project_root
        /\ (project_root = <<>> /\ doc_root = <<>>) =>
               /\ scanned' = scanned
               /\ guid_cache' = guid_cache
               /\ project_root' = <<>>
               /\ call'.op = "inspect_all_paginated" => res'.error = ""
               /\ call'.op = "inspect_all" =>
                      /\ res'.count = Len(extract_gameobjects(doc))
                      /\ \A i \in 1..Len(res'.prefab_instances) :
                             res'.prefab_instances[i].source_prefab = NoPath

(* C14 as stated: every query is such a step *)
C14_AsStated == [][LazyOnceStep(QueryOps)]_vars

(* a query that needs no resolution, or an inspect without identifier *)
NonResolving ==
    \/ call'.op \in QueryOps \ ResolvingOps
    \/ call'.op = "inspect" /\ call'.identifier = NoIdentifier

C14_Step ==
    /\ ~NonResolving => LazyOnceStep(ResolvingOps)
    /\ (call'.op \in QueryOps /\ NonResolving) =>
           scanned' = scanned /\ guid_cache' = guid_cache /\ project_root' = project_root

(* C14: on a scanner without a root, a resolving query (find_by_name,
   inspect with an identifier, inspect_all, inspect_all_paginated,
   scan_scene_with_components) on a readable document under an asset root
   scans that root exactly once; a query on a scanner that has a root scans
   nothing and leaves the cache as it is, whatever document it names; a
   query that finds no asset root succeeds without scanning, with no error
   and the resolved paths absent; scan_scene_minimal, scan_scene_metadata
   and an inspect without identifier never scan *)
C14_LazyOnce == [][C14_Step]_vars

C14_Witness ==
    /\ call.op \in ResolvingOps
    /\ file_state = "ok"
    /\ scanned = <<"projA">>
    /\ project_root = <<"projA">>
    /\ doc_root = <<"projB">>
    /\ "g1" \in DOMAIN guid_cache

(***************************************************************************)
(* inspect by object identifier, prefab instances                          *)
(***************************************************************************)
(* the block whose object identifier is exactly id, 0 if none *)
ExactBlock(d, id) ==
    LET B == {b \in 1..Len(d) : d[b].id = id} IN IF B = {} THEN 0 ELSE Min(B)

InspectById ==
    /\ call.op = "inspect" /\ file_state = "ok"
    /\ call.identifier # NoIdentifier /\ call.identifier # <<>>
    /\ all_digits(call.identifier)
    /\ WellFormedDoc(doc) /\ UniqueIds(doc)

(* C11: inspect with an all-digit identifier answers by the block whose
   object identifier is exactly the identifier: detail for a container,
   summary for a prefab instance, the stripped error for a stripped
   container, the wrong-kind error with the block's type identifier for any
   other block, and no result when no block has that identifier *)
C11_ByExactBlock ==
    InspectById =>
        LET b == ExactBlock(doc, IdOfDigits(call.identifier))
        IN IF b = 0 THEN res.kind = "none"
           ELSE IF IsContainer(doc[b])
           THEN res.kind = "detail" /\ res.file_id = doc[b].id
           ELSE IF doc[b].cls = 1001 /\ ~doc[b].stripped
           THEN res.kind = "prefab" /\ res.info.file_id = doc[b].id
           ELSE IF doc[b].cls = 1 /\ doc[b].stripped
           THEN res.kind = "error" /\ res.error = "stripped"
           ELSE /\ res.kind = "error" /\ res.error # "stripped"
                /\ res.class_id = doc[b].cls

(* no earlier block of the same type has an identifier that starts with the
   identifier of block b *)
ExactLookup(d, b) ==
    \A c \in 1..(b - 1) : ~(d[c].cls = d[b].cls /\ IsIdPrefix(d[b].id, d[c].id))

(* the entries of an override list: the position of each target line that
   is followed by its property path and its value *)
Entries(body) ==
    {i \in 1..(Len(body) - 2) :
        /\ body[i].k = "target"
        /\ body[i + 1].k = "propertyPath"
        /\ body[i + 2].k = "value"}

(* the name the override list gives: the value of the first entry whose
   property path is m_Name *)
DisplayName(body) ==
    LET E == {i \in Entries(body) : body[i + 1].t = "m_Name"}
    IN IF E = {} THEN Unnamed ELSE body[Min(E) + 2].s

PrefabBlocks(d) == {b \in 1..Len(d) : d[b].cls = 1001 /\ ~d[b].stripped}

(* C19: the display name of a prefab instance is the value of the first
   entry of its override list whose property path is m_Name, and
   "<unnamed>" when there is no such entry; entries with other property
   paths never supply it *)
C19_DisplayName ==
    (call.op = "inspect_all" /\ file_state = "ok" /\ UniqueIds(doc)) =>
        \A b \in PrefabBlocks(doc) :
            ExactLookup(doc, b) =>
                \E i \in 1..Len(res.prefab_instances) :
                    /\ res.prefab_instances[i].file_id = doc[b].id
                    /\ res.prefab_instances[i].name = DisplayName(doc[b].body)

(* the property-path/value pairs of the entries with this target, in the
   order of the override list *)
PairsOf(body, t) ==
    LET E == {i \in Entries(body) : body[i].n = t}
    IN [k \in 1..Cardinality(E) |->
           [propertyPath |-> body[Nth(E, k) + 1].t, value |-> body[Nth(E, k) + 2].s]]

RECURSIVE SumOfLens(_, _)
SumOfLens(f, T) ==
    IF T = {} THEN 0
    ELSE LET t == CHOOSE x \in T : TRUE IN Len(f[t]) + SumOfLens(f, T \ {t})

GroupedCall ==
    /\ InspectById /\ call.include_properties
    /\ ExactBlock(doc, IdOfDigits(call.identifier)) \in PrefabBlocks(doc)
    /\ ExactLookup(doc, ExactBlock(doc, IdOfDigits(call.identifier)))

(* C20: the grouping of the modifications of a prefab instance has exactly
   one bucket per distinct target identifier, the bucket sizes add up to the
   number of modifications, and each bucket holds the property-path/value
   pairs of its target in the order of the override list *)
C20_Grouping ==
    GroupedCall =>
        LET body == doc[ExactBlock(doc, IdOfDigits(call.identifier))].body
        IN /\ res.kind = "prefab" /\ res.has_modifications
           /\ DOMAIN res.modifications = {body[i].n : i \in Entries(body)}
           /\ SumOfLens(res.modifications, DOMAIN res.modifications)
                  = Cardinality(Entries(body))
           /\ res.info.modifications_count = Cardinality(Entries(body))
           /\ \A t \in DOMAIN res.modifications :
                  res.modifications[t] = PairsOf(body, t)

C20_Witness ==
    /\ GroupedCall
    /\ Cardinality(DOMAIN res.modifications) = 2
    /\ \E t \in DOMAIN res.modifications : Len(res.modifications[t]) = 2
    /\ res.info.modifications_count = 3
    /\ Len(doc) = 2

(***************************************************************************)
(* hierarchy of one container                                              *)
(***************************************************************************)
HierCall == call.op = "extract_metadata_indexed"

(* the block the first component reference to a hierarchy provider of the
   configuration points at, 0 if none *)
FirstProvider(d, cfg, b) ==
    LET C == {i \in 1..Len(d[b].body) :
                 /\ d[b].body[i].k = "component"
                 /\ ExactBlock(d, d[b].body[i].n) # 0
                 /\ d[ExactBlock(d, d[b].body[i].n)].cls \in cfg.hierarchy_providers}
    IN IF C = {} THEN 0 ELSE ExactBlock(d, d[b].body[Min(C)].n)

(* the parent reference in the configured parent field *)
ConfiguredParent(body, cfg) ==
    LET i == FirstLine(body, cfg.parent_field, 1)
    IN IF i = 0 \/ body[i].n = 0 THEN None ELSE body[i].n

(* C15: the first component reference of a container whose block is of a
   configured hierarchy-provider type supplies parent and children, later
   providers are ignored; the parent is read from the parent field
   configured in the object config, and a zero or absent reference yields
   no parent *)
C15_ConfiguredParent ==
    HierCall =>
        LET t == FirstProvider(doc, call.config, ExactBlock(doc, call.file_id))
        IN IF t = 0 THEN res.parent_id = None /\ res.children = <<>>
           ELSE res.parent_id = ConfiguredParent(doc[t].body, call.config)

(* the entries of the children list: the entry lines that directly follow
   the children field *)
RECURSIVE ChildEntries(_, _)
ChildEntries(body, i) ==
    IF i > Len(body) \/ body[i].k # "child" THEN <<>>
    ELSE <<body[i].n>> \o ChildEntries(body, i + 1)

ChildrenField(body) ==
    LET i == FirstLine(body, "m_Children", 1)
    IN IF i = 0 THEN <<>>
       ELSE SelectSeq(ChildEntries(body, i + 1), LAMBDA n : n # 0)

(* C16: the children of a container are the entries of the children field
   of its hierarchy-provider block, in document order with zero references
   removed, whether the list has one entry per line or is an empty inline
   list, and whatever follows the list in the block *)
C16_Children ==
    HierCall =>
        LET t == FirstProvider(doc, call.config, ExactBlock(doc, call.file_id))
        IN t # 0 => res.children = ChildrenField(doc[t].body)

(***************************************************************************)
(* components of one container                                             *)
(***************************************************************************)
CompCall == call.op = "extract_components_with_config"

(* the stable identifier the script reference of this block carries *)
OwnScriptGuid(body) ==
    LET L == {l \in 1..Len(body) :
                 /\ body[l].k = "prop" /\ body[l].t = "m_Script"
                 /\ \E i \in 1..(Len(body[l].s) - 1) : body[l].s[i] = "guid:"}
    IN IF L = {} THEN ""
       ELSE LET v == body[Min(L)].s
            IN v[Min({i \in 1..(Len(v) - 1) : v[i] = "guid:"}) + 1]

(* name is the file name of path without its extension *)
IsFileNameWithoutExtension(name, path) ==
    \E i \in 1..Len(path), j \in 1..Len(path) :
        /\ i <= j /\ name = SubSeq(path, i, j)
        /\ (i = 1 \/ path[i - 1] = "/")
        /\ \A k \in i..Len(path) : path[k] # "/"
        /\ j < Len(path) /\ path[j + 1] = "."
        /\ \A k \in (j + 2)..Len(path) : path[k] # "."

(* C17: a component of a script-container type whose script reference
   carries a stable identifier reports that identifier; its script path is
   the cached path and its script name that path's file name without
   extension when the identifier is in the cache, and both are absent when
   it is not; a component of any other type has no script identifier, path
   or name *)
C17_ScriptResolution ==
    CompCall =>
        \A i \in 1..Len(res) :
            LET c == res[i]
                b == ExactBlock(doc, c.file_id)
                g == OwnScriptGuid(doc[b].body)
            IN IF doc[b].cls \notin call.config.script_containers
               THEN c.script_guid = "" /\ c.script_path = <<>> /\ c.script_name = <<>>
               ELSE g # "" =>
                      /\ c.script_guid = g
                      /\ IF g \in DOMAIN guid_cache
                         THEN /\ c.script_path = guid_cache[g]
                              /\ IsFileNameWithoutExtension(c.script_name, guid_cache[g])
                         ELSE c.script_path = <<>> /\ c.script_name = <<>>

(* the text of a line as it is appended to a value *)
TextOf(ln) == IF ln.k = "prop" THEN <<ln.t, ":", " ">> \o ln.s ELSE ln.s

(* the value of line i followed by the lines up to j, one space before each *)
RECURSIVE JoinTo(_, _, _)
JoinTo(lines, i, j) ==
    IF j <= i THEN lines[i].s
    ELSE JoinTo(lines, i, j - 1) \o <<" ">> \o TextOf(lines[j])

Occurrences(v, c) == Cardinality({k \in 1..Len(v) : v[k] = c})

Open(v) ==
    \/ Occurrences(v, "{") > Occurrences(v, "}")
    \/ Occurrences(v, "[") > Occurrences(v, "]")

(* the last line of the value that starts at line i *)
EndOf(lines, i) ==
    LET J == {j \in i..Len(lines) : ~Open(JoinTo(lines, i, j))}
    IN IF J = {} THEN Len(lines) ELSE Min(J)

IsPropertyLine(ln) ==
    /\ ln.k = "prop" /\ ln.s # <<>>
    /\ ln.t \notin {"m_ObjectHideFlags", "ObjectHideFlags"}

(* the lines that start a property: property lines no earlier value has
   consumed *)
RECURSIVE PropertyStarts(_, _)
PropertyStarts(lines, i) ==
    IF i > Len(lines) THEN {}
    ELSE IF IsPropertyLine(lines[i])
         THEN {i} \cup PropertyStarts(lines, EndOf(lines, i) + 1)
         ELSE PropertyStarts(lines, i + 1)

RECURSIVE OccurrencesIn(_, _, _, _)
OccurrencesIn(lines, i, j, c) ==
    IF j < i THEN 0
    ELSE OccurrencesIn(lines, i, j - 1, c)
         + Occurrences(IF j = i THEN lines[i].s ELSE TextOf(lines[j]), c)

NameOfProperty(ln) == clean_name(ln.t)

(* C18: a property value with more opening than closing braces or brackets
   takes the following lines of the block, each joined by one space, until
   the counts balance or the block ends; the value keeps every brace and
   bracket of its lines, the consumed lines are no properties of their own,
   and the other properties of the block are all in the result *)
C18_Continuation ==
    CompCall =>
        \A i \in 1..Len(res) :
            LET b == ExactBlock(doc, res[i].file_id)
                lines == doc[b].body
                S == PropertyStarts(lines, 1)
                props == res[i].properties
            IN ExactLookup(doc, b) =>
                 /\ DOMAIN props = {NameOfProperty(lines[s]) : s \in S}
                 /\ \A s \in S :
                        (/\ \A t \in S : NameOfProperty(lines[t]) = NameOfProperty(lines[s])
                                               => t <= s
                         /\ OwnScriptGuid(<<lines[s]>>) = "")
                        => /\ props[NameOfProperty(lines[s])]
                                 = JoinTo(lines, s, EndOf(lines, s))
                           /\ \A c \in {"{", "}", "[", "]"} :
                                  Occurrences(props[NameOfProperty(lines[s])], c)
                                      = OccurrencesIn(lines, s, EndOf(lines, s), c)

C18_Witness ==
    /\ CompCall
    /\ \E i \in 1..Len(res), j \in 1..Len(res) :
          /\ "Data" \in DOMAIN res[i].properties
          /\ res[i].properties["Data"]
                = <<"{", "a:", "[", " ", "1", "]", " ", "b", ":", " ", "2", "}">>
          /\ DOMAIN res[i].properties = {"First", "Data", "After"}
          /\ "Open" \in DOMAIN res[j].properties
          /\ res[j].properties["Open"] = <<"{", "x", " ", "y", ":", " ", "2">>
          /\ DOMAIN res[j].properties = {"First", "Open"}

(***************************************************************************)
(* the object config                                                       *)
(***************************************************************************)
ConfigDefaults ==
    /\ config_fields.gameobject_class_id = 1
    /\ hierarchy_providers = {4, 224}
    /\ script_containers = {114}

(* the set after an add or a remove of x: x is a member exactly when the
   operation was an add, every other identifier is a member as before *)
SetAfter(before, after, added, x) ==
    /\ (x \in after) = added
    /\ \A y \in ConfigClassIds \cup before \cup after :
           y # x => ((y \in after) = (y \in before))

C21_Step ==
    /\ call'.op = "add_hierarchy_provider" =>
          /\ SetAfter(hierarchy_providers, hierarchy_providers', TRUE, call'.class_id)
          /\ UNCHANGED <<script_containers, config_fields>>
    /\ call'.op = "remove_hierarchy_provider" =>
          /\ SetAfter(hierarchy_providers, hierarchy_providers', FALSE, call'.class_id)
          /\ UNCHANGED <<script_containers, config_fields>>
    /\ call'.op = "add_script_container" =>
          /\ SetAfter(script_containers, script_containers', TRUE, call'.class_id)
          /\ UNCHANGED <<hierarchy_providers, config_fields>>
    /\ call'.op = "remove_script_container" =>
          /\ SetAfter(script_containers, script_containers', FALSE, call'.class_id)
          /\ UNCHANGED <<hierarchy_providers, config_fields>>
    /\ (call.op = call'.op /\ call.class_id = call'.class_id
          /\ call'.op \in {"add_hierarchy_provider", "add_script_container"}) =>
          UNCHANGED <<hierarchy_providers, script_containers>>

(* C21: the object config starts with container type 1, hierarchy providers
   {4, 224} and script containers {114}; each add or remove decides the
   membership of its type identifier in its set and of nothing else, so an
   identifier is a member exactly when the last operation on it was an add,
   or it is a default never removed; adding twice is adding once; the other
   set, the container type and the field names stay as they were *)
C21_ConfigSets ==
    /\ (call.op = "new" => ConfigDefaults)
    /\ [][C21_Step]_vars

C21_Witness ==
    /\ call.op = "remove_hierarchy_provider"
    /\ hierarchy_providers = {224, 999}
    /\ script_containers = {}

(***************************************************************************)
(* the depth walk                                                          *)
(***************************************************************************)
WalkCall == call.op = "compute_depth"

WalkDone == WalkCall /\ res.done

(* the walk is on a cycle: its current node is its own ancestor *)
RECURSIVE ReachesIn(_, _, _, _)
ReachesIn(pm, from, to, n) ==
    /\ n > 0 /\ from \in DOMAIN pm
    /\ (pm[from] = to \/ ReachesIn(pm, pm[from], to, n - 1))

OnCycle(pm, t) == ReachesIn(pm, t, t, Cardinality(DOMAIN pm))

WalkBounded ==
    WalkCall =>
        /\ res.depth <= call.max_depth + 1
        /\ res.lookups <= call.max_depth + 2
        /\ res.depth <= res.lookups
        /\ res.done => res.depth = compute_depth(args.parent_map, call.tid, call.max_depth)

(* C22: the depth walk ends for every parent map, cyclic maps and maps with
   absent parents included; it follows at most max_depth + 1 parent links
   and the depth it computes never exceeds max_depth + 1 *)
C22_WalkTerminates == <>WalkDone /\ []WalkBounded

C22_Witness ==
    /\ WalkDone
    /\ OnCycle(args.parent_map, call.tid)
    /\ call.max_depth = MaxWalkDepth
    /\ res.depth = call.max_depth + 1

(***************************************************************************)
(* the parallel build of the identifier cache                              *)
(***************************************************************************)
BuildCall == call.op = "build_guid_cache"

(* the mapping the sidecar files determine: each identifier with the path
   of the last file, in directory-walk order, that declares it *)
MappingOf(meta_files) ==
    [g \in {meta_files[i] : i \in 1..Len(meta_files)} \ {NoGuidLine} |->
        rel_path(Max({i \in 1..Len(meta_files) : meta_files[i] = g}))]

BuildInv ==
    BuildCall =>
        /\ call.phase = "parallel" => res.map = <<>> /\ res.pairs = <<>>
        /\ call.phase # "parallel" =>
              /\ \A i \in 1..Len(args.meta_files) :
                     args.meta_files[i] # NoGuidLine =>
                        \E k \in 1..Len(res.pairs) :
                            /\ res.pairs[k].guid = args.meta_files[i]
                            /\ res.pairs[k].path = rel_path(i)
              /\ Len(res.pairs)
                    = Cardinality({i \in 1..Len(args.meta_files) :
                                      args.meta_files[i] # NoGuidLine})
        /\ call.phase = "returned" => res.map = MappingOf(args.meta_files)

BuildStep ==
    (BuildCall /\ call.phase = "parallel" /\ call'.phase = "parallel") =>
        /\ res'.map = res.map
        /\ \E i \in 1..Len(res.slots) :
              /\ res.slots[i] = Pending /\ res'.slots[i] # Pending
              /\ \A j \in 1..Len(res.slots) : j # i => res'.slots[j] = res.slots[j]

(* C23: while the workers of the parallel cache build run nothing is
   inserted into the map: a worker only produces the pair of its own file,
   and all insertions follow the parallel phase; every pair produced reaches
   the insertion phase, and the final mapping is the same for every
   interleaving of the workers *)
C23_ParallelBuild == []BuildInv /\ [][BuildStep]_vars

C23_Witness ==
    /\ BuildCall /\ call.phase = "returned"
    /\ Len(args.meta_files) = MaxMetaFiles
    /\ Cardinality(DOMAIN res.map) = 2
    /\ Len(res.pairs) = 3

(***************************************************************************)
(* paging walks                                                            *)
(***************************************************************************)
(* a call of a walk that started at cursor 0 *)
WalkFromZero == PagedCall /\ call.walk.start = 0

WalkPostFilter ==
    LET pf == PostFilter(doc, ExpectedMaxDepth, call.options.filter_component)
    IN [i \in 1..Len(pf) |-> doc[pf[i]].id]

(* C24: in a paging walk from cursor 0 every next_cursor is greater than the
   cursor it was returned for; the walk ends with truncated = false after
   finitely many calls, no more than the post-filter list has containers
   (one call for an empty list); and the pages of the walk, one after the
   other, are the post-filter container list, each container once and in
   order *)
C24_PagingWalk ==
    WalkFromZero =>
        /\ res.truncated => res.next_cursor > res.cursor
        /\ call.walk.calls <= (IF res.total = 0 THEN 1 ELSE res.total)
        /\ ~res.truncated =>
              call.walk.seen \o file_ids(res.gameobjects) = WalkPostFilter


(***************************************************************************)
(* C25 .. C30                                                              *)
(***************************************************************************)
(* C25: every container returned by inspect_all_paginated, whatever the
   effective max_depth from 0 to 50, carries as depth the true number of
   ancestors of its hierarchy provider along the parent chain *)
C25_TrueDepth ==
    (PagedCall /\ Acyclic(doc) /\ ExpectedMaxDepth \in 0..50) =>
        LET pos == Positions(doc)
            dep == Depths(doc)
        IN \A i \in 1..Len(res.gameobjects) :
               res.gameobjects[i].depth = ReturnedDepth(pos, dep, i)


(* C26: block lookup by object identifier is exact: the summary of every
   prefab instance (name, source identifier, modification count) and the
   property map of every component are computed from the body of the block
   whose object identifier equals the requested one, also when an earlier
   block of the same type has an identifier that starts with it *)
C26_ExactBlockLookup ==
    /\ (call.op = "inspect_all" /\ file_state = "ok" /\ UniqueIds(doc)) =>
          \A b \in PrefabBlocks(doc) :
              \E i \in 1..Len(res.prefab_instances) :
                  LET p == res.prefab_instances[i]
                  IN /\ p.file_id = doc[b].id
                     /\ p.name = extract_name_from_modifications(doc[b].body)
                     /\ p.source_guid = extract_source_guid(doc[b].body)
                     /\ p.modifications_count = count_modifications(doc[b].body)
    /\ (CompCall /\ UniqueIds(doc)) =>
          \A i \in 1..Len(res) :
              res[i].properties =
                  parse_properties(doc[ExactBlock(doc, res[i].file_id)].body, 1,
                                   guid_cache, <<>>)


(* the body of the block a prefab-instance summary was made from *)
SummaryBody(file_id) == extract_prefab_block(doc, file_id).body

PrefabDetailCall ==
    /\ call.op = "inspect" /\ file_state = "ok"
    /\ res.kind = "prefab" /\ res.has_modifications

(* C27: for every prefab-instance block the modification count of the
   summary is the number of modifications the detail extraction returns,
   which is the total number of entries over the buckets of the per-target
   grouping *)
C27_CountsAgree ==
    /\ (call.op = "inspect_all" /\ file_state = "ok") =>
          \A i \in 1..Len(res.prefab_instances) :
              res.prefab_instances[i].modifications_count =
                  Len(extract_modifications(SummaryBody(res.prefab_instances[i].file_id)))
    /\ PrefabDetailCall =>
          /\ res.info.modifications_count =
                 Len(extract_modifications(SummaryBody(res.info.file_id)))
          /\ res.info.modifications_count =
                 SumOfLens(res.modifications, DOMAIN res.modifications)

C27_Witness ==
    /\ PrefabDetailCall
    /\ res.info.modifications_count = 2
    /\ DOMAIN res.modifications = {7, 8}
    /\ res.modifications[8] = <<[propertyPath |-> "", value |-> <<>>]>>


(* the lines of the entry whose target line is at i: those after it and
   before the next target line *)
OwnLines(body, i) ==
    {j \in (i + 1)..Len(body) : \A k \in (i + 1)..j : body[k].k # "target"}

OwnPath(body, i) ==
    LET P == {j \in OwnLines(body, i) : body[j].k = "propertyPath"}
    IN IF P = {} THEN "" ELSE body[Max(P)].t

OwnValue(body, i) ==
    LET V == {j \in OwnLines(body, i) : body[j].k = "value"}
    IN IF V = {} THEN <<>> ELSE body[Max(V)].s

(* the pairs of the entries with target t, each from its own lines *)
OwnPairs(body, t) ==
    LET E == {i \in 1..Len(body) : body[i].k = "target" /\ body[i].n = t}
    IN [k \in 1..Cardinality(E) |->
           [propertyPath |-> OwnPath(body, Nth(E, k)),
            value |-> OwnValue(body, Nth(E, k))]]

(* C28: every modification takes its property path and its value only from
   the lines of its own override-list entry, those between its target line
   and the next target line; an entry without property path or without
   value line gets the empty string for it, never the path or value of the
   entry that follows *)
C28_OwnEntryOnly ==
    PrefabDetailCall =>
        \A t \in DOMAIN res.modifications :
            res.modifications[t] = OwnPairs(SummaryBody(res.info.file_id), t)


InspectByName ==
    /\ call.op = "inspect" /\ file_state = "ok"
    /\ call.identifier # NoIdentifier
    /\ ~all_digits(call.identifier)
    /\ WellFormedDoc(doc)

(* the identifier of the object a result describes, None for no object *)
DescribedId ==
    IF res.kind = "detail" THEN res.file_id
    ELSE IF res.kind = "prefab" THEN res.info.file_id
    ELSE None

(* C29: inspect with a non-numeric identifier describes an object only when
   the fuzzy name search has exactly one match, and then that match; with
   more than one match it returns the ambiguity error whatever the scores,
   also when one name equals the identifier and the others only contain it;
   with no match it returns no result *)
C29_NameResolution ==
    InspectByName =>
        LET H == NameHits(doc, call.identifier)
        IN /\ DescribedId # None =>
                 Cardinality(H) = 1 /\ \A o \in H : DescribedId = o.file_id
           /\ Cardinality(H) = 1 => DescribedId # None
           /\ Cardinality(H) > 1 => res.kind = "error" /\ res.error = "multiple"
           /\ Cardinality(H) = 0 => res = NoResult

C29_Witness ==
    /\ InspectByName
    /\ call.identifier = <<"a">>
    /\ Len(doc) = 2
    /\ IsContainer(doc[1]) /\ NameOfContainer(doc[1]) = <<"b", "a">>
    /\ IsContainer(doc[2]) /\ NameOfContainer(doc[2]) = <<"a">>
    /\ res.kind = "error" /\ res.error = "multiple"
    /\ Len(res.ids) = 2


(* the identifiers of the prefab instances of the document, in order *)
PrefabIds(d) ==
    LET ps == SelectSeq(d, LAMBDA blk : blk.cls = 1001 /\ ~blk.stripped)
    IN [i \in 1..Len(ps) |-> ps[i].id]

(* how often x occurs in the sequence s *)
CountIn(s, x) == Cardinality({i \in 1..Len(s) : s[i] = x})

WalkCallOk == call.op = "inspect_all_paginated" /\ file_state = "ok"

(* C30: in a paging walk the prefab-instance summaries come with the call
   whose cursor is 0, all of them whatever page_size and the filters, and
   with no call whose cursor is greater: a walk from cursor 0 reports every
   prefab instance exactly once, a walk from a later cursor reports none *)
C30_PrefabsOnce ==
    WalkCallOk =>
        LET reported == call.walk.seen_prefabs \o file_ids(res.prefab_instances)
        IN /\ res.cursor = 0 => file_ids(res.prefab_instances) = PrefabIds(doc)
           /\ res.cursor > 0 => res.prefab_instances = <<>>
           /\ call.walk.start = 0 =>
                 \A k \in 1..Len(PrefabIds(doc)) :
                     CountIn(reported, PrefabIds(doc)[k]) = 1
           /\ call.walk.start > 0 => reported = <<>>

====
